---- MODULE Spec2Model ----
(***************************************************************************)
(* Single-table store access of the backend: FlagDynamo and AlbumDynamo    *)
(* over the store client.  Strings are sequences of one-character strings, *)
(* so that key encoding (f'{type}/{id}') and begins_with are computed.     *)
(* An item is a function from attribute names to values; the table maps    *)
(* each physical key [partitionKey, sortKey] that has a record to its item.*)
(* The migration scripts (post_0_to_1, user_6_to_7) run as a process over   *)
(* the same table, page by page and record by record.  UserManager's       *)
(* create_cognito_only_user runs call by call against the Cognito user     *)
(* pool and the table.                                                     *)
(***************************************************************************)
EXTENDS Integers, Sequences, FiniteSets, TLC

VARIABLES
    table,   \* the store: physical key -> item
    last,    \* the last call: [op, err, ret, warnings, steps]
    flagged, \* history: flag triples whose last successful operation was an add
    adds,    \* history: album id -> add_post steps committed since the record was created
    removes, \* history: album id -> remove_post steps committed since the record was created
    writers, \* concurrent callers of transact_add_post:
             \* writer -> [pc, album_id, old_rank_count, overlap, deleted]
    mig,     \* the running migration script: its position, the page and record in
             \* hand, its log, and the history of the run
    cognito, \* the Cognito user pool: user id -> the user's attributes
    callers  \* concurrent callers of create_cognito_only_user:
             \* caller -> [pc, user_id, username, the values read, err, follows]

vars == <<table, last, flagged, adds, removes, writers, mig, cognito, callers>>

----------------------------------------------------------------------------
(* Bounds *)

MaxTime == 2
MaxCount == 2
MaxIdLen == 2

Times == 1..MaxTime

----------------------------------------------------------------------------
(* Strings *)

Slash == <<"/">>
Dash == <<"-">>
S_album == <<"a", "l", "b", "u", "m">>
S_flag == <<"f", "l", "a", "g">>
S_post == <<"p", "o", "s", "t">>
S_comment == <<"c", "o", "m", "m", "e", "n", "t">>

Digits == <<"0", "1", "2", "3", "4", "5", "6", "7", "8", "9">>

None == <<>>
Some(x) == <<x>>

begins_with(s, prefix) ==
    /\ Len(s) >= Len(prefix)
    /\ SubSeq(s, 1, Len(prefix)) = prefix

\* str(n) of a non-negative integer
RECURSIVE str(_)
str(n) == IF n < 10 THEN <<Digits[n + 1]>> ELSE str(n \div 10) \o <<Digits[(n % 10) + 1]>>

DigitValue(c) == CHOOSE d \in 0..9 : Digits[d + 1] = c

\* the store's reading of a number attribute value {'N': '<decimal>'}
RECURSIVE NatOfStr(_)
NatOfStr(s) ==
    IF Len(s) = 0 THEN 0
    ELSE 10 * NatOfStr(SubSeq(s, 1, Len(s) - 1)) + DigitValue(s[Len(s)])

NumOfStr(s) == IF Len(s) > 0 /\ s[1] = "-" THEN 0 - NatOfStr(Tail(s)) ELSE NatOfStr(s)

\* pendulum's to_iso8601_string of the instant t (instants are 1..MaxTime)
to_iso8601_string(t) == str(t) \o <<"Z">>

----------------------------------------------------------------------------
(* Inputs *)

UserIds == {<<"u", "1">>, <<"u", "2">>}
AlbumIds == {<<"a", "1">>, <<"a", "2">>}
WriterIds == {"w1", "w2"}

----------------------------------------------------------------------------
(* Items and the store's expression semantics *)

NoItem == [a \in {} |-> 0]

Has(item, attr) == attr \in DOMAIN item

Without(item, attrs) == [a \in (DOMAIN item) \ attrs |-> item[a]]

KeyOf(item) == [partitionKey |-> item.partitionKey, sortKey |-> item.sortKey]

get_item(tbl, key) == IF key \in DOMAIN tbl THEN tbl[key] ELSE NoItem

PutItem(tbl, item) == (KeyOf(item) :> item) @@ tbl

RemoveKeys(tbl, keys) == [k \in (DOMAIN tbl) \ keys |-> tbl[k]]

\* one clause of a ConditionExpression, evaluated on the stored item (NoItem when
\* the key has no record: every attribute is then absent)
EvalClause(item, c) ==
    CASE c.fn = "attribute_exists" -> Has(item, c.attr)
      [] c.fn = "attribute_not_exists" -> ~Has(item, c.attr)
      [] c.fn = "eq" -> Has(item, c.attr) /\ item[c.attr] = c.val
      [] c.fn = "gt" -> Has(item, c.attr) /\ item[c.attr] > c.val
      [] c.fn = "not_gt" -> ~(Has(item, c.attr) /\ item[c.attr] > c.val)

\* a ConditionExpression is the conjunction ('and') of its clauses
EvalCondition(item, cond) == \A i \in DOMAIN cond : EvalClause(item, cond[i])

\* UpdateExpression on the stored item: SET, REMOVE, ADD (an absent attribute
\* counts as 0 under ADD); a key with no record gets one (the store upserts)
ApplyUpdate(item, key, upd) ==
    LET base == IF DOMAIN item = {} THEN key ELSE item
        afterSet == upd.SET @@ base
        afterRemove == Without(afterSet, upd.REMOVE)
        added == [a \in DOMAIN upd.ADD |->
                    (IF Has(afterRemove, a) THEN afterRemove[a] ELSE 0) + upd.ADD[a]]
    IN  added @@ afterRemove

NoAttrs == [a \in {} |-> 0]

----------------------------------------------------------------------------
(* The store client (app/clients/dynamo.py), as the specification states it *)

Result(tbl, err, ret, warnings) == [tbl |-> tbl, err |-> err, ret |-> ret, warnings |-> warnings]

\* create: fails if the primary key is already present
client_add_item(tbl, query_kwargs) ==
    LET item == query_kwargs.Item
        cond == <<[fn |-> "attribute_not_exists", attr |-> "partitionKey"]>>
    IN  IF EvalCondition(get_item(tbl, KeyOf(item)), cond)
        THEN Result(PutItem(tbl, item), "", item, 0)
        ELSE Result(tbl, "ConditionalCheckFailedException", NoItem, 0)

\* update: a partial update under the caller's condition, with no existence
\* precondition of its own; with a failure_warning a failed condition is logged
\* as one warning and not raised
client_update_item(tbl, query_kwargs, failure_warning) ==
    LET old == get_item(tbl, query_kwargs.Key)
        new == ApplyUpdate(old, query_kwargs.Key, query_kwargs.UpdateExpression)
    IN  IF EvalCondition(old, query_kwargs.ConditionExpression)
        THEN Result(PutItem(tbl, new), "", new, 0)
        ELSE IF failure_warning = None
             THEN Result(tbl, "ConditionalCheckFailedException", NoItem, 0)
             ELSE Result(tbl, "", NoItem, 1)

\* delete: returns the deleted item, or nothing when there was none
client_delete_item(tbl, key) ==
    IF key \in DOMAIN tbl
    THEN Result(RemoveKeys(tbl, {key}), "", tbl[key], 0)
    ELSE Result(tbl, "", NoItem, 0)

\* query of one partition for the sort keys with a prefix, projected
client_generate_all_query(tbl, partitionKey, sk_prefix, projection) ==
    {[a \in (DOMAIN tbl[k]) \cap projection |-> tbl[k][a]] :
        k \in {x \in DOMAIN tbl : x.partitionKey = partitionKey /\ begins_with(x.sortKey, sk_prefix)}}

client_batch_delete_items(tbl, generator) ==
    Result(RemoveKeys(tbl, {KeyOf(i) : i \in generator}), "", NoItem, 0)

\* the low-level client's attribute values: {'S': string} and {'N': decimal}
Untype(v) == IF "N" \in DOMAIN v THEN NumOfStr(v.N) ELSE v.S

UntypeAttrs(f) == [a \in DOMAIN f |-> Untype(f[a])]

UntypeClause(c) ==
    IF "val" \in DOMAIN c THEN [fn |-> c.fn, attr |-> c.attr, val |-> Untype(c.val)] ELSE c

UntypeUpdate(u) ==
    [Key |-> UntypeAttrs(u.Key),
     UpdateExpression |-> [SET |-> UntypeAttrs(u.UpdateExpression.SET),
                           REMOVE |-> u.UpdateExpression.REMOVE,
                           ADD |-> UntypeAttrs(u.UpdateExpression.ADD)],
     ConditionExpression |-> [i \in DOMAIN u.ConditionExpression |->
                                 UntypeClause(u.ConditionExpression[i])]]

StepHolds(tbl, step) ==
    LET u == UntypeUpdate(step.Update)
    IN  EvalCondition(get_item(tbl, u.Key), u.ConditionExpression)

RECURSIVE ApplySteps(_, _)
ApplySteps(tbl, steps) ==
    IF Len(steps) = 0 THEN tbl
    ELSE LET u == UntypeUpdate(Head(steps).Update)
         IN  ApplySteps(PutItem(tbl, ApplyUpdate(get_item(tbl, u.Key), u.Key, u.UpdateExpression)),
                        Tail(steps))

\* transactWrite: the steps commit together or not at all
client_transact_write_items(tbl, steps) ==
    IF \A i \in DOMAIN steps : StepHolds(tbl, steps[i])
    THEN Result(ApplySteps(tbl, steps), "", NoItem, 0)
    ELSE Result(tbl, "TransactionCanceledException", NoItem, 0)

----------------------------------------------------------------------------
(* FlagDynamo (app/mixins/flag/dynamo.py) *)

\* mutant: the sort key leaves out the user id
Flag_pk_no_user(item_type, item_id, user_id) ==
    [partitionKey |-> item_type \o Slash \o item_id,
     sortKey |-> S_flag \o Slash]

Flag_pk(item_type, item_id, user_id) ==
    [partitionKey |-> item_type \o Slash \o item_id,
     sortKey |-> S_flag \o Slash \o user_id]

Flag_add_item(item_type, item_id, user_id, now) ==
    Flag_pk(item_type, item_id, user_id) @@
    [schemaVersion |-> 0,
     gsiK1PartitionKey |-> S_flag \o Slash \o user_id,
     gsiK1SortKey |-> item_type,
     createdAt |-> to_iso8601_string(now)]

\* mutant: the query leaves out the sort key prefix
Flag_generate_by_item_whole_partition(tbl, item_type, item_id, pks_only) ==
    client_generate_all_query(tbl, item_type \o Slash \o item_id, <<>>,
        IF pks_only THEN {"partitionKey", "sortKey"}
        ELSE {"partitionKey", "sortKey", "schemaVersion", "gsiK1PartitionKey",
              "gsiK1SortKey", "createdAt"})

\* mutant: the query's partition key leaves out the item id
Flag_generate_by_item_no_item_id(tbl, item_type, item_id, pks_only) ==
    client_generate_all_query(tbl, item_type \o Slash, S_flag \o Slash,
        IF pks_only THEN {"partitionKey", "sortKey"}
        ELSE {"partitionKey", "sortKey", "schemaVersion", "gsiK1PartitionKey",
              "gsiK1SortKey", "createdAt"})

Flag_generate_by_item(tbl, item_type, item_id, pks_only) ==
    client_generate_all_query(tbl, item_type \o Slash \o item_id, S_flag \o Slash,
        IF pks_only THEN {"partitionKey", "sortKey"}
        ELSE {"partitionKey", "sortKey", "schemaVersion", "gsiK1PartitionKey",
              "gsiK1SortKey", "createdAt"})

Call(op, r) == [op |-> op, err |-> r.err, ret |-> r.ret, warnings |-> r.warnings, steps |-> <<>>]

Raise(r, err) == [r EXCEPT !.err = err, !.ret = NoItem]

Flag_get(item_type, item_id, user_id) ==
    /\ last' = Call("Flag_get", Result(table, "", get_item(table, Flag_pk(item_type, item_id, user_id)), 0))
    /\ UNCHANGED <<table, flagged, adds, removes, writers, mig, cognito, callers>>

Flag_add(item_type, item_id, user_id, now) ==
    LET r0 == client_add_item(table, [Item |-> Flag_add_item(item_type, item_id, user_id, now)])
        r == IF r0.err = "ConditionalCheckFailedException" THEN Raise(r0, "AlreadyFlagged") ELSE r0
    IN  /\ table' = r.tbl
        /\ last' = Call("Flag_add", r)
        /\ flagged' = IF r.err = "" THEN flagged \cup {<<item_type, item_id, user_id>>} ELSE flagged
        /\ UNCHANGED <<adds, removes, writers, mig, cognito, callers>>

Flag_delete(item_type, item_id, user_id) ==
    LET r0 == client_delete_item(table, Flag_pk(item_type, item_id, user_id))
        r == IF DOMAIN r0.ret = {} THEN Raise(r0, "NotFlagged") ELSE [r0 EXCEPT !.ret = NoItem]
    IN  /\ table' = r.tbl
        /\ last' = Call("Flag_delete", r)
        /\ flagged' = IF r.err = "" THEN flagged \ {<<item_type, item_id, user_id>>} ELSE flagged
        /\ UNCHANGED <<adds, removes, writers, mig, cognito, callers>>

Flag_delete_all_for_item(item_type, item_id) ==
    LET generator == Flag_generate_by_item(table, item_type, item_id, TRUE)
        r == client_batch_delete_items(table, generator)
    IN  /\ table' = r.tbl
        /\ last' = Call("Flag_delete_all_for_item", r)
        /\ flagged' = {f \in flagged : ~(f[1] = item_type /\ f[2] = item_id)}
        /\ UNCHANGED <<adds, removes, writers, mig, cognito, callers>>

\* the items of a query in the order the store returns them, one per record
RECURSIVE ItemsOf(_, _, _)
ItemsOf(tbl, keys, projection) ==
    IF keys = {} THEN <<>>
    ELSE LET k == CHOOSE x \in keys : TRUE
         IN  <<[a \in (DOMAIN tbl[k]) \cap projection |-> tbl[k][a]]>>
             \o ItemsOf(tbl, keys \ {k}, projection)

\* query of index GSI-K1: one partition of the index and one exact sort key; a
\* record is in the index if it has both index attributes
client_generate_all_query_GSI_K1(tbl, pk, sk, projection) ==
    ItemsOf(tbl,
            {k \in DOMAIN tbl : /\ Has(tbl[k], "gsiK1PartitionKey")
                                /\ Has(tbl[k], "gsiK1SortKey")
                                /\ tbl[k].gsiK1PartitionKey = pk
                                /\ tbl[k].gsiK1SortKey = sk},
            projection)

\* partitionKey[prefix_len:]
StripPrefix(s, prefix_len) == SubSeq(s, prefix_len + 1, Len(s))

\* mutant: the key condition leaves out the sort key of the index
Flag_generate_item_ids_by_user_any_type(tbl, item_type, user_id) ==
    LET prefix_len == Len(item_type) + 1
        items == ItemsOf(tbl,
                         {k \in DOMAIN tbl : /\ Has(tbl[k], "gsiK1PartitionKey")
                                             /\ tbl[k].gsiK1PartitionKey = S_flag \o Slash \o user_id},
                         {"partitionKey"})
    IN  [i \in DOMAIN items |-> StripPrefix(items[i].partitionKey, prefix_len)]

Flag_generate_item_ids_by_user(tbl, item_type, user_id) ==
    LET prefix_len == Len(item_type) + 1
        items == client_generate_all_query_GSI_K1(tbl, S_flag \o Slash \o user_id, item_type,
                                                  {"partitionKey"})
    IN  [i \in DOMAIN items |-> StripPrefix(items[i].partitionKey, prefix_len)]

\* a caller drains generate_item_ids_by_user
Flag_item_ids_by_user(item_type, user_id) ==
    /\ last' = [Call("Flag_generate_item_ids_by_user",
                     Result(table, "", Flag_generate_item_ids_by_user(table, item_type, user_id), 0))
                EXCEPT !.steps = <<[item_type |-> item_type, user_id |-> user_id]>>]
    /\ UNCHANGED <<table, flagged, adds, removes, writers, mig, cognito, callers>>

----------------------------------------------------------------------------
(* AlbumDynamo (app/models/album/dynamo.py) *)

Album_pk(album_id) == [partitionKey |-> S_album \o Slash \o album_id, sortKey |-> Dash]

typed_pk(album_id) ==
    [partitionKey |-> [S |-> S_album \o Slash \o album_id], sortKey |-> [S |-> Dash]]

get_album(album_id) ==
    /\ last' = Call("get_album", Result(table, "", get_item(table, Album_pk(album_id)), 0))
    /\ UNCHANGED <<table, flagged, adds, removes, writers, mig, cognito, callers>>

add_album_item(album_id, user_id, name, description, created_at) ==
    LET created_at_str == to_iso8601_string(created_at)
        Item == Album_pk(album_id) @@
                [schemaVersion |-> 0,
                 gsiA1PartitionKey |-> S_album \o Slash \o user_id,
                 gsiA1SortKey |-> created_at_str,
                 albumId |-> album_id,
                 ownedByUserId |-> user_id,
                 createdAt |-> created_at_str,
                 name |-> name]
    IN  IF description # None THEN ("description" :> description[1]) @@ Item ELSE Item

\* mutant: the failed condition is swallowed and not raised as AlbumAlreadyExists
add_album_swallow(album_id, user_id, name, description, created_at) ==
    LET r0 == client_add_item(table, [Item |-> add_album_item(album_id, user_id, name, description, created_at)])
        r == [r0 EXCEPT !.err = ""]
    IN  /\ table' = r.tbl
        /\ last' = Call("add_album", r)
        /\ UNCHANGED <<flagged, adds, removes, writers, mig, cognito, callers>>

add_album(album_id, user_id, name, description, created_at) ==
    LET r0 == client_add_item(table, [Item |-> add_album_item(album_id, user_id, name, description, created_at)])
        r == IF r0.err = "ConditionalCheckFailedException" THEN Raise(r0, "AlbumAlreadyExists") ELSE r0
    IN  /\ table' = r.tbl
        /\ last' = Call("add_album", r)
        /\ UNCHANGED <<flagged, adds, removes, writers, mig, cognito, callers>>

\* mutant: nothing is raised when there was no record to delete
delete_album_silent(album_id) ==
    LET r == client_delete_item(table, Album_pk(album_id))
    IN  /\ table' = r.tbl
        /\ last' = Call("delete_album", r)
        /\ adds' = [adds EXCEPT ![album_id] = 0]
        /\ removes' = [removes EXCEPT ![album_id] = 0]
        /\ UNCHANGED <<flagged, writers, mig, cognito, callers>>

delete_album(album_id) ==
    LET r0 == client_delete_item(table, Album_pk(album_id))
        r == IF DOMAIN r0.ret = {} THEN Raise(r0, "AlbumDoesNotExist") ELSE r0
    IN  /\ table' = r.tbl
        /\ last' = Call("delete_album", r)
        /\ adds' = IF r.err = "" THEN [adds EXCEPT ![album_id] = 0] ELSE adds
        /\ removes' = IF r.err = "" THEN [removes EXCEPT ![album_id] = 0] ELSE removes
        /\ writers' = [w \in DOMAIN writers |->
                          IF r.err = "" /\ writers[w].pc = "built" /\ writers[w].album_id = album_id
                          THEN [writers[w] EXCEPT !.deleted = TRUE]
                          ELSE writers[w]]
        /\ UNCHANGED <<flagged, mig, cognito, callers>>

\* mutant: an empty description is set like any other description
Album_set_kwargs_sets_empty(album_id, name, description) ==
    LET setName == IF name # None THEN ("name" :> name[1]) ELSE NoAttrs
        setDesc == IF description # None THEN ("description" :> description[1]) ELSE NoAttrs
    IN  [Key |-> Album_pk(album_id),
         UpdateExpression |-> [SET |-> setName @@ setDesc, REMOVE |-> {}, ADD |-> NoAttrs],
         ConditionExpression |-> <<>>]

\* the update of set(): name and description are optional (None or Some(string))
Album_set_kwargs(album_id, name, description) ==
    LET setName == IF name # None THEN ("name" :> name[1]) ELSE NoAttrs
        setDesc == IF description # None /\ description[1] # <<>>
                   THEN ("description" :> description[1]) ELSE NoAttrs
        remDesc == IF description # None /\ description[1] = <<>> THEN {"description"} ELSE {}
    IN  [Key |-> Album_pk(album_id),
         UpdateExpression |-> [SET |-> setName @@ setDesc, REMOVE |-> remDesc, ADD |-> NoAttrs],
         ConditionExpression |-> <<>>]

Album_set(album_id, name, description) ==
    LET asserted == (name # None \/ description # None) /\ name # Some(<<>>)
        r == IF asserted
             THEN client_update_item(table, Album_set_kwargs(album_id, name, description), None)
             ELSE Result(table, "AssertionError", NoItem, 0)
    IN  /\ table' = r.tbl
        /\ last' = Call("set", r)
        /\ UNCHANGED <<flagged, adds, removes, writers, mig, cognito, callers>>

set_album_art_hash_kwargs(album_id, art_hash) ==
    [Key |-> Album_pk(album_id),
     UpdateExpression |->
        IF art_hash # None /\ art_hash[1] # <<>>
        THEN [SET |-> ("artHash" :> art_hash[1]), REMOVE |-> {}, ADD |-> NoAttrs]
        ELSE [SET |-> NoAttrs, REMOVE |-> {"artHash"}, ADD |-> NoAttrs],
     ConditionExpression |-> <<>>]

set_album_art_hash(album_id, art_hash) ==
    LET r == client_update_item(table, set_album_art_hash_kwargs(album_id, art_hash), None)
    IN  /\ table' = r.tbl
        /\ last' = Call("set_album_art_hash", r)
        /\ UNCHANGED <<flagged, adds, removes, writers, mig, cognito, callers>>

\* mutant: the update carries no condition
set_delete_at_fail_soft_kwargs_unconditioned(album_id, delete_at) ==
    [Key |-> Album_pk(album_id),
     UpdateExpression |-> [SET |-> [gsiK1PartitionKey |-> S_album,
                                    gsiK1SortKey |-> to_iso8601_string(delete_at)],
                           REMOVE |-> {}, ADD |-> NoAttrs],
     ConditionExpression |-> <<>>]

\* mutant: the update names the gsiA1 attributes in place of the gsiK1 ones
set_delete_at_fail_soft_kwargs_gsiA1(album_id, delete_at) ==
    [Key |-> Album_pk(album_id),
     UpdateExpression |-> [SET |-> [gsiA1PartitionKey |-> S_album,
                                    gsiA1SortKey |-> to_iso8601_string(delete_at)],
                           REMOVE |-> {}, ADD |-> NoAttrs],
     ConditionExpression |-> <<[fn |-> "not_gt", attr |-> "postCount", val |-> 0]>>]

set_delete_at_fail_soft_kwargs(album_id, delete_at) ==
    [Key |-> Album_pk(album_id),
     UpdateExpression |-> [SET |-> [gsiK1PartitionKey |-> S_album,
                                    gsiK1SortKey |-> to_iso8601_string(delete_at)],
                           REMOVE |-> {}, ADD |-> NoAttrs],
     ConditionExpression |-> <<[fn |-> "not_gt", attr |-> "postCount", val |-> 0]>>]

\* mutant: the call is made without a failure_warning
set_delete_at_fail_soft_raises(album_id, delete_at) ==
    LET r == client_update_item(table, set_delete_at_fail_soft_kwargs(album_id, delete_at), None)
    IN  /\ table' = r.tbl
        /\ last' = Call("set_delete_at_fail_soft", r)
        /\ UNCHANGED <<flagged, adds, removes, writers, mig, cognito, callers>>

set_delete_at_fail_soft(album_id, delete_at) ==
    LET r == client_update_item(table, set_delete_at_fail_soft_kwargs(album_id, delete_at),
                                Some("Failed to set deleteAt GSI for album"))
    IN  /\ table' = r.tbl
        /\ last' = Call("set_delete_at_fail_soft", r)
        /\ UNCHANGED <<flagged, adds, removes, writers, mig, cognito, callers>>

clear_delete_at_fail_soft_kwargs(album_id) ==
    [Key |-> Album_pk(album_id),
     UpdateExpression |-> [SET |-> NoAttrs, REMOVE |-> {"gsiK1PartitionKey", "gsiK1SortKey"},
                           ADD |-> NoAttrs],
     ConditionExpression |-> <<>>]

clear_delete_at_fail_soft(album_id) ==
    LET r == client_update_item(table, clear_delete_at_fail_soft_kwargs(album_id),
                                Some("Failed to clear deleteAt GSI for album"))
    IN  /\ table' = r.tbl
        /\ last' = Call("clear_delete_at_fail_soft", r)
        /\ UNCHANGED <<flagged, adds, removes, writers, mig, cognito, callers>>

\* mutant: the condition does not look at rankCount
transact_add_post_no_rank_check(album_id, old_rank_count, now) ==
    [Update |->
        [Key |-> typed_pk(album_id),
         UpdateExpression |->
            [ADD |-> [postCount |-> [N |-> <<"1">>], rankCount |-> [N |-> <<"1">>]],
             SET |-> [postsLastUpdatedAt |-> [S |-> to_iso8601_string(now)]],
             REMOVE |-> {}],
         ConditionExpression |-> <<[fn |-> "attribute_exists", attr |-> "partitionKey"]>>]]

\* mutant: rankCount is left out of the ADD
transact_add_post_no_rank_add(album_id, old_rank_count, now) ==
    [Update |->
        [Key |-> typed_pk(album_id),
         UpdateExpression |->
            [ADD |-> [postCount |-> [N |-> <<"1">>]],
             SET |-> [postsLastUpdatedAt |-> [S |-> to_iso8601_string(now)]],
             REMOVE |-> {}],
         ConditionExpression |->
            <<[fn |-> "attribute_exists", attr |-> "partitionKey"]>> \o
            (IF old_rank_count # None
             THEN <<[fn |-> "eq", attr |-> "rankCount", val |-> [N |-> str(old_rank_count[1])]]>>
             ELSE <<[fn |-> "attribute_not_exists", attr |-> "rankCount"]>>)]]

\* mutant: postCount is left out of the ADD
transact_add_post_no_post_add(album_id, old_rank_count, now) ==
    [Update |->
        [Key |-> typed_pk(album_id),
         UpdateExpression |->
            [ADD |-> [rankCount |-> [N |-> <<"1">>]],
             SET |-> [postsLastUpdatedAt |-> [S |-> to_iso8601_string(now)]],
             REMOVE |-> {}],
         ConditionExpression |->
            <<[fn |-> "attribute_exists", attr |-> "partitionKey"]>> \o
            (IF old_rank_count # None
             THEN <<[fn |-> "eq", attr |-> "rankCount", val |-> [N |-> str(old_rank_count[1])]]>>
             ELSE <<[fn |-> "attribute_not_exists", attr |-> "rankCount"]>>)]]

\* old_rank_count is optional: None or Some(n)
transact_add_post(album_id, old_rank_count, now) ==
    [Update |->
        [Key |-> typed_pk(album_id),
         UpdateExpression |->
            [ADD |-> [postCount |-> [N |-> <<"1">>], rankCount |-> [N |-> <<"1">>]],
             SET |-> [postsLastUpdatedAt |-> [S |-> to_iso8601_string(now)]],
             REMOVE |-> {}],
         ConditionExpression |->
            <<[fn |-> "attribute_exists", attr |-> "partitionKey"]>> \o
            (IF old_rank_count # None
             THEN <<[fn |-> "eq", attr |-> "rankCount", val |-> [N |-> str(old_rank_count[1])]]>>
             ELSE <<[fn |-> "attribute_not_exists", attr |-> "rankCount"]>>)]]

\* mutant: the condition does not look at postCount
transact_remove_post_no_guard(album_id, now) ==
    [Update |->
        [Key |-> typed_pk(album_id),
         UpdateExpression |->
            [ADD |-> [postCount |-> [N |-> <<"-", "1">>]],
             SET |-> [postsLastUpdatedAt |-> [S |-> to_iso8601_string(now)]],
             REMOVE |-> {}],
         ConditionExpression |-> <<[fn |-> "attribute_exists", attr |-> "partitionKey"]>>]]

\* mutant: the condition asks only that postCount be present
transact_remove_post_exists_only(album_id, now) ==
    [Update |->
        [Key |-> typed_pk(album_id),
         UpdateExpression |->
            [ADD |-> [postCount |-> [N |-> <<"-", "1">>]],
             SET |-> [postsLastUpdatedAt |-> [S |-> to_iso8601_string(now)]],
             REMOVE |-> {}],
         ConditionExpression |->
            <<[fn |-> "attribute_exists", attr |-> "partitionKey"],
              [fn |-> "attribute_exists", attr |-> "postCount"]>>]]

transact_remove_post(album_id, now) ==
    [Update |->
        [Key |-> typed_pk(album_id),
         UpdateExpression |->
            [ADD |-> [postCount |-> [N |-> <<"-", "1">>]],
             SET |-> [postsLastUpdatedAt |-> [S |-> to_iso8601_string(now)]],
             REMOVE |-> {}],
         ConditionExpression |->
            <<[fn |-> "attribute_exists", attr |-> "partitionKey"],
              [fn |-> "gt", attr |-> "postCount", val |-> [N |-> <<"0">>]]>>]]

\* mutant: the ADD of transact_add_post, copied with postCount left in
transact_increment_rank_count_adds_post(album_id, old_rank_count, now) ==
    [Update |->
        [Key |-> typed_pk(album_id),
         UpdateExpression |->
            [ADD |-> [postCount |-> [N |-> <<"1">>], rankCount |-> [N |-> <<"1">>]],
             SET |-> [postsLastUpdatedAt |-> [S |-> to_iso8601_string(now)]],
             REMOVE |-> {}],
         ConditionExpression |->
            <<[fn |-> "attribute_exists", attr |-> "partitionKey"],
              [fn |-> "eq", attr |-> "rankCount", val |-> [N |-> str(old_rank_count)]]>>]]

transact_increment_rank_count(album_id, old_rank_count, now) ==
    [Update |->
        [Key |-> typed_pk(album_id),
         UpdateExpression |->
            [ADD |-> [rankCount |-> [N |-> <<"1">>]],
             SET |-> [postsLastUpdatedAt |-> [S |-> to_iso8601_string(now)]],
             REMOVE |-> {}],
         ConditionExpression |->
            <<[fn |-> "attribute_exists", attr |-> "partitionKey"],
              [fn |-> "eq", attr |-> "rankCount", val |-> [N |-> str(old_rank_count)]]>>]]

\* primary records of posts and users (keys as the fixtures of the migration tests put them)
S_profile == <<"p", "r", "o", "f", "i", "l", "e">>
S_user == <<"u", "s", "e", "r">>

Post_pk(post_id) == [partitionKey |-> S_post \o Slash \o post_id, sortKey |-> Dash]

----------------------------------------------------------------------------
(* Committing transaction steps *)

PostCountOf(tbl, album_id) ==
    LET item == get_item(tbl, Album_pk(album_id))
    IN  IF Has(item, "postCount") THEN item.postCount ELSE 0

RankCountOf(tbl, album_id) ==
    LET item == get_item(tbl, Album_pk(album_id))
    IN  IF Has(item, "rankCount") THEN item.rankCount ELSE 0

\* a request for one step: which builder, and its arguments
BuildStep(req) ==
    CASE req.kind = "transact_add_post" ->
            transact_add_post(req.album_id, req.old_rank_count, req.now)
      [] req.kind = "transact_remove_post" ->
            transact_remove_post(req.album_id, req.now)
      [] req.kind = "transact_increment_rank_count" ->
            transact_increment_rank_count(req.album_id, req.old_rank_count[1], req.now)

\* the rank counts a caller can have observed: none, or a stored value (1 or more)
OldRankCounts == {None} \cup {Some(n) : n \in 1..MaxCount}

StepRequests(album_ids, now) ==
    [kind : {"transact_add_post"}, album_id : album_ids, old_rank_count : OldRankCounts, now : {now}]
    \cup [kind : {"transact_remove_post"}, album_id : album_ids, old_rank_count : {None}, now : {now}]
    \cup [kind : {"transact_increment_rank_count"}, album_id : album_ids,
          old_rank_count : OldRankCounts \ {None}, now : {now}]

RemoveRequest(album_id, now) ==
    [kind |-> "transact_remove_post", album_id |-> album_id, old_rank_count |-> None, now |-> now]

AddRequest(album_id, old_rank_count, now) ==
    [kind |-> "transact_add_post", album_id |-> album_id, old_rank_count |-> old_rank_count, now |-> now]

CountKind(reqs, kind, album_id) ==
    Cardinality({i \in DOMAIN reqs : reqs[i].kind = kind /\ reqs[i].album_id = album_id})

\* the caller batches the steps and commits them in one transaction; the store
\* takes at most one step per item
TransactCommit(reqs) ==
    LET steps == [i \in DOMAIN reqs |-> BuildStep(reqs[i])]
        r == client_transact_write_items(table, steps)
    IN  /\ \A i, j \in DOMAIN reqs : i # j => reqs[i].album_id # reqs[j].album_id
        /\ \A i \in DOMAIN reqs :
              reqs[i].kind # "transact_remove_post" => RankCountOf(table, reqs[i].album_id) < MaxCount
        /\ table' = r.tbl
        /\ last' = [Call("transact_write_items", r) EXCEPT
                       !.steps = [i \in DOMAIN reqs |->
                                     [kind |-> reqs[i].kind, album_id |-> reqs[i].album_id]]]
        /\ adds' = IF r.err = ""
                   THEN [a \in DOMAIN adds |-> adds[a] + CountKind(reqs, "transact_add_post", a)]
                   ELSE adds
        /\ removes' = IF r.err = ""
                      THEN [a \in DOMAIN removes |-> removes[a] + CountKind(reqs, "transact_remove_post", a)]
                      ELSE removes

transact_write_items(reqs) ==
    /\ TransactCommit(reqs)
    /\ UNCHANGED <<flagged, writers, mig, cognito, callers>>

\* A concurrent caller of transact_add_post: it reads the album, builds the step
\* from the rank count it observed, and commits the step later.
Writer_build(w, album_id) ==
    LET item == get_item(table, Album_pk(album_id))
    IN  /\ writers[w].pc = "idle"
        /\ DOMAIN item # {}
        /\ writers' = [writers EXCEPT ![w] =
                          [pc |-> "built", album_id |-> album_id,
                           old_rank_count |-> IF Has(item, "rankCount") THEN Some(item.rankCount) ELSE None,
                           overlap |-> FALSE, deleted |-> FALSE]]
        /\ last' = Call("get_album", Result(table, "", item, 0))
        /\ UNCHANGED <<table, flagged, adds, removes, mig, cognito, callers>>

SameObservation(x, y) == x.album_id = y.album_id /\ x.old_rank_count = y.old_rank_count

Writer_commit(w, now) ==
    /\ writers[w].pc = "built"
    /\ TransactCommit(<<[kind |-> "transact_add_post", album_id |-> writers[w].album_id,
                         old_rank_count |-> writers[w].old_rank_count, now |-> now]>>)
    /\ writers' = [writers EXCEPT ![w] =
                      IF last'.err = ""
                      THEN [@ EXCEPT !.pc = "committed",
                                     !.overlap = \E v \in DOMAIN writers \ {w} :
                                                    /\ writers[v].pc = "built"
                                                    /\ SameObservation(writers[v], writers[w])]
                      ELSE [pc |-> "failed", album_id |-> @.album_id, old_rank_count |-> None,
                            overlap |-> FALSE, deleted |-> FALSE]]
    /\ UNCHANGED <<flagged, mig, cognito, callers>>

----------------------------------------------------------------------------
(* The post migration (migrations/post_0_to_1.py) *)

\* the store's scan order: a fixed total order of the keys a table can hold
ScanOrder ==
    <<Post_pk(<<"p", "1">>), Flag_pk(S_post, <<"p", "1">>, <<"u", "1">>), Album_pk(<<"a", "1">>),
      Post_pk(<<"p", "2">>), Post_pk(<<"p", "3">>),
      [partitionKey |-> S_user \o Slash \o <<"u", "1">>, sortKey |-> S_profile],
      [partitionKey |-> S_user \o Slash \o <<"u", "2">>, sortKey |-> S_profile]>>

Position(key) == CHOOSE i \in DOMAIN ScanOrder : ScanOrder[i] = key

\* the keys with a record that the store has not evaluated yet
KeysAfter(tbl, start_key) ==
    {k \in DOMAIN tbl : start_key = None \/ Position(k) > Position(start_key[1])}

RECURSIVE InScanOrder(_, _)
InScanOrder(tbl, keys) ==
    IF keys = {} THEN <<>>
    ELSE LET first == CHOOSE k \in keys : \A j \in keys : Position(k) <= Position(j)
         IN  <<tbl[first]>> \o InScanOrder(tbl, keys \ {first})

\* mutant: the filter leaves out the schemaVersion
FilterExpression_any_version(item, scan_kwargs) ==
    begins_with(item.partitionKey, scan_kwargs.pk_prefix)

\* 'begins_with(partitionKey, :pk_prefix) and schemaVersion = :sv'
FilterExpression(item, scan_kwargs) ==
    /\ begins_with(item.partitionKey, scan_kwargs.pk_prefix)
    /\ Has(item, "schemaVersion")
    /\ item.schemaVersion = scan_kwargs.sv

\* where the store can end a page: at any record not evaluated yet (Some(key),
\* returned as LastEvaluatedKey), or at the end of the table (None)
PageStops(tbl, start_key) == {None} \cup {Some(k) : k \in KeysAfter(tbl, start_key)}

\* one page of a scan: the records between the start key and the stop that pass
\* the filter, and the stop as the continuation token
boto_table_scan(tbl, scan_kwargs, stop) ==
    LET evaluated == {k \in KeysAfter(tbl, scan_kwargs.ExclusiveStartKey) :
                         stop = None \/ Position(k) <= Position(stop[1])}
    IN  [Items |-> InScanOrder(tbl, {k \in evaluated : FilterExpression(tbl[k], scan_kwargs)}),
         LastEvaluatedKey |-> stop]

generate_all_posts_scan_kwargs(version, start_key) ==
    [pk_prefix |-> S_post \o Slash, sv |-> version, ExclusiveStartKey |-> start_key]

\* mutant: the loop also ends at a page with no items
generate_all_posts_more_nonempty(paginated) ==
    paginated.LastEvaluatedKey # None /\ Len(paginated.Items) > 0

\* the loop of generate_all_posts goes on unless the page has no LastEvaluatedKey
generate_all_posts_more(paginated) == paginated.LastEvaluatedKey # None

\* the store's update with 'SET attr = path' operands: a failed condition or an
\* operand missing from the item raises and writes nothing
boto_table_update_item(tbl, kwargs) ==
    LET old == get_item(tbl, kwargs.Key)
        resolves == \A a \in DOMAIN kwargs.SetFrom :
                       /\ Has(old, kwargs.SetFrom[a][1])
                       /\ kwargs.SetFrom[a][2] \in DOMAIN old[kwargs.SetFrom[a][1]]
        copied == [a \in DOMAIN kwargs.SetFrom |-> old[kwargs.SetFrom[a][1]][kwargs.SetFrom[a][2]]]
        new == Without(kwargs.Set @@ copied @@ old, kwargs.Remove)
    IN  IF ~EvalCondition(old, kwargs.ConditionExpression)
        THEN Result(tbl, "ConditionalCheckFailedException", NoItem, 0)
        ELSE IF ~resolves
             THEN Result(tbl, "ValidationException", NoItem, 0)
             ELSE Result(PutItem(tbl, new), "", new, 0)

\* mutant: the update carries no ConditionExpression
update_post_from_0_to_1_kwargs_unconditioned(like) ==
    [Key |-> [partitionKey |-> like.partitionKey, sortKey |-> like.sortKey],
     SetFrom |-> [postedByUserId |-> <<"postedBy", "userId">>],
     Set |-> [schemaVersion |-> 1],
     Remove |-> {"postedBy"},
     ConditionExpression |-> <<>>]

\* mutant: ':one' is given the value 2
update_post_from_0_to_1_kwargs_skips(like) ==
    [Key |-> [partitionKey |-> like.partitionKey, sortKey |-> like.sortKey],
     SetFrom |-> [postedByUserId |-> <<"postedBy", "userId">>],
     Set |-> [schemaVersion |-> 2],
     Remove |-> {"postedBy"},
     ConditionExpression |-> <<[fn |-> "attribute_exists", attr |-> "partitionKey"],
                               [fn |-> "eq", attr |-> "schemaVersion", val |-> 0]>>]

update_post_from_0_to_1_kwargs(like) ==
    [Key |-> [partitionKey |-> like.partitionKey, sortKey |-> like.sortKey],
     SetFrom |-> [postedByUserId |-> <<"postedBy", "userId">>],
     Set |-> [schemaVersion |-> 1],
     Remove |-> {"postedBy"},
     ConditionExpression |-> <<[fn |-> "attribute_exists", attr |-> "partitionKey"],
                               [fn |-> "eq", attr |-> "schemaVersion", val |-> 0]>>]

\* main() asks generate_all_posts(0) for its next item and the generator scans a
\* page: the first page of a run, or the page after the last LastEvaluatedKey
generate_all_posts(version, stop) ==
    LET first == mig.pc \in {"idle", "done"}
        start_key == IF first THEN None ELSE mig.start_key
        scan_kwargs == generate_all_posts_scan_kwargs(version, start_key)
        paginated == boto_table_scan(table, scan_kwargs, stop)
        more == generate_all_posts_more(paginated)
        matching == {k \in DOMAIN table : FilterExpression(table[k], scan_kwargs)}
    IN  /\ mig.pc \in {"idle", "done", "scan"}
        /\ mig.kind \in {"none", "post"}
        /\ first => mig.runs < 2
        /\ stop \in PageStops(table, start_key)
        /\ mig' = [mig EXCEPT
                      !.kind = "post",
                      !.pc = IF Len(paginated.Items) > 0 THEN "page"
                             ELSE IF more THEN "scan" ELSE "done",
                      !.runs = IF first THEN @ + 1 ELSE @,
                      !.start_key = paginated.LastEvaluatedKey,
                      !.more = more,
                      !.page = paginated.Items,
                      !.log = IF first THEN <<>> ELSE @,
                      !.writes = IF first THEN 0 ELSE @,
                      !.yielded = IF first THEN <<>> ELSE @,
                      !.matching = IF first THEN matching ELSE @,
                      !.stable = IF first THEN matching ELSE @,
                      !.races = @]
        /\ last' = Call("scan", Result(table, "", NoItem, 0))
        /\ UNCHANGED <<table, flagged, adds, removes, writers, cognito, callers>>

\* main() takes the next item of the page and updates it; an exception ends the
\* script
update_post_from_0_to_1 ==
    LET like == Head(mig.page)
        r == boto_table_update_item(table, update_post_from_0_to_1_kwargs(like))
        rest == Tail(mig.page)
    IN  /\ mig.pc = "page"
        /\ mig.kind = "post"
        /\ table' = r.tbl
        /\ last' = Call("update_post_from_0_to_1", r)
        /\ mig' = [mig EXCEPT
                      !.pc = IF r.err # "" THEN "failed"
                             ELSE IF Len(rest) > 0 THEN "page"
                             ELSE IF mig.more THEN "scan" ELSE "done",
                      !.page = rest,
                      !.item = like,
                      !.yielded = Append(@, KeyOf(like)),
                      !.log = IF r.err = ""
                              THEN @ \o <<<<"Updating item", KeyOf(like)>>, <<"Done.">>>>
                              ELSE Append(@, <<"Updating item", KeyOf(like)>>),
                      !.writes = IF r.err = "" THEN @ + 1 ELSE @]
        /\ UNCHANGED <<flagged, adds, removes, writers, cognito, callers>>

\* post records as the migration finds them: at version 0 with postedBy, at
\* version 1 with postedByUserId
PostItem(post_id, version) ==
    Post_pk(post_id) @@
    (IF version = 0
     THEN [schemaVersion |-> 0, postId |-> post_id, postedBy |-> [userId |-> <<"u", "1">>]]
     ELSE [schemaVersion |-> version, postId |-> post_id, postedByUserId |-> <<"u", "1">>])

\* writers of post records running next to the script
Unstable(key) ==
    [mig EXCEPT !.stable = @ \ {key}, !.races = IF mig.runs > 0 THEN 1 ELSE @]

Writer_put_post(post_id, version) ==
    /\ Post_pk(post_id) \notin DOMAIN table
    /\ table' = PutItem(table, PostItem(post_id, version))
    /\ last' = Call("put_post", Result(table', "", NoItem, 0))
    /\ mig' = Unstable(Post_pk(post_id))
    /\ UNCHANGED <<flagged, adds, removes, writers, cognito, callers>>

Writer_delete_post(post_id) ==
    /\ Post_pk(post_id) \in DOMAIN table
    /\ table' = RemoveKeys(table, {Post_pk(post_id)})
    /\ last' = Call("delete_post", Result(table', "", NoItem, 0))
    /\ mig' = Unstable(Post_pk(post_id))
    /\ UNCHANGED <<flagged, adds, removes, writers, cognito, callers>>

Writer_update_post(post_id) ==
    /\ Post_pk(post_id) \in DOMAIN table
    /\ table' = PutItem(table, ("text" :> <<"t">>) @@ table[Post_pk(post_id)])
    /\ last' = Call("update_post", Result(table', "", NoItem, 0))
    /\ mig' = Unstable(Post_pk(post_id))
    /\ UNCHANGED <<flagged, adds, removes, writers, cognito, callers>>

\* another run of the script next to this one: its update of a post it was
\* yielded, when that update goes through
Writer_migrate_post(post_id) ==
    LET r == boto_table_update_item(table, update_post_from_0_to_1_kwargs(Post_pk(post_id)))
    IN  /\ Post_pk(post_id) \in DOMAIN table
        /\ r.err = ""
        /\ table' = r.tbl
        /\ last' = Call("migrate_post", r)
        /\ mig' = Unstable(Post_pk(post_id))
        /\ UNCHANGED <<flagged, adds, removes, writers, cognito, callers>>

----------------------------------------------------------------------------
(* The user migration (migrations/user_6_to_7.py), as the specification and the
   tests of the migration state it *)

S_ARCHIVED == <<"A", "R", "C", "H", "I", "V", "E", "D">>

User_pk(user_id) == [partitionKey |-> S_user \o Slash \o user_id, sortKey |-> S_profile]

\* a user record as the fixtures put it: postArchivedCount is optional
UserItem(user_id, version, count) ==
    LET item == User_pk(user_id) @@ [schemaVersion |-> version, userId |-> user_id]
    IN  IF count # None THEN ("postArchivedCount" :> count[1]) @@ item ELSE item

\* an archived post of a user as the tests put it
ArchivedPostItem(post_id, user_id) ==
    Post_pk(post_id) @@
    [gsiA2PartitionKey |-> S_post \o Slash \o user_id,
     gsiA2SortKey |-> S_ARCHIVED \o Slash \o Dash]

\* the recomputation: the user's archived posts in the store now
dynamo_count_archived_posts(tbl, user_id) ==
    Cardinality({k \in DOMAIN tbl :
                    /\ Has(tbl[k], "gsiA2PartitionKey")
                    /\ tbl[k].gsiA2PartitionKey = S_post \o Slash \o user_id
                    /\ Has(tbl[k], "gsiA2SortKey")
                    /\ begins_with(tbl[k].gsiA2SortKey, S_ARCHIVED \o Slash)})

\* mutant: the update is conditioned on the record's existence only
dynamo_update_user_kwargs_unconditioned(user_id, old_count, new_count) ==
    [Key |-> User_pk(user_id),
     SetFrom |-> NoAttrs,
     Set |-> IF old_count = None /\ new_count = 0
             THEN [schemaVersion |-> 7]
             ELSE [schemaVersion |-> 7, postArchivedCount |-> new_count],
     Remove |-> {},
     ConditionExpression |-> <<[fn |-> "attribute_exists", attr |-> "partitionKey"]>>]

\* the conditional update: bump schemaVersion and set the recomputed count, only
\* if the record still lacks the count (old_count = None) or still holds old_count
dynamo_update_user_kwargs(user_id, old_count, new_count) ==
    [Key |-> User_pk(user_id),
     SetFrom |-> NoAttrs,
     Set |-> IF old_count = None /\ new_count = 0
             THEN [schemaVersion |-> 7]
             ELSE [schemaVersion |-> 7, postArchivedCount |-> new_count],
     Remove |-> {},
     ConditionExpression |->
        <<[fn |-> "attribute_exists", attr |-> "partitionKey"]>> \o
        (IF old_count = None
         THEN <<[fn |-> "attribute_not_exists", attr |-> "postArchivedCount"]>>
         ELSE <<[fn |-> "eq", attr |-> "postArchivedCount", val |-> old_count[1]]>>)]

\* a failed condition is raised as 'Update failed for user'
dynamo_update_user_result(tbl, user_id, old_count, new_count) ==
    LET r == boto_table_update_item(tbl, dynamo_update_user_kwargs(user_id, old_count, new_count))
    IN  IF r.err = "ConditionalCheckFailedException" THEN Raise(r, "Update failed for user") ELSE r

\* dynamo_update_user called on its own
dynamo_update_user(user_id, old_count, new_count) ==
    LET r == dynamo_update_user_result(table, user_id, old_count, new_count)
    IN  /\ table' = r.tbl
        /\ last' = [Call("dynamo_update_user", r) EXCEPT
                       !.steps = <<[user_id |-> user_id, old_count |-> old_count, new_count |-> new_count]>>]
        /\ UNCHANGED <<flagged, adds, removes, writers, mig, cognito, callers>>

UserIdOf(item) == item.userId

\* run(): scan the users at schemaVersion 6
Migration_run ==
    LET scan_kwargs == [pk_prefix |-> S_user \o Slash, sv |-> 6, ExclusiveStartKey |-> None]
        paginated == boto_table_scan(table, scan_kwargs, None)
    IN  /\ mig.pc \in {"idle", "done"}
        /\ mig.kind \in {"none", "user"}
        /\ mig.runs < 2
        /\ mig' = [mig EXCEPT
                      !.kind = "user",
                      !.pc = IF Len(paginated.Items) > 0 THEN "page" ELSE "done",
                      !.runs = @ + 1,
                      !.page = paginated.Items,
                      !.log = <<>>,
                      !.writes = 0,
                      !.selected = {UserIdOf(paginated.Items[i]) : i \in DOMAIN paginated.Items}]
        /\ last' = Call("scan", Result(table, "", NoItem, 0))
        /\ UNCHANGED <<table, flagged, adds, removes, writers, cognito, callers>>

\* the four phases of one user's migration, each with its log line
migrate_user_start ==
    /\ mig.pc = "page"
    /\ mig.kind = "user"
    /\ mig' = [mig EXCEPT !.pc = "started", !.item = Head(mig.page), !.page = Tail(mig.page),
                          !.log = Append(@, <<"starting migration", UserIdOf(Head(mig.page))>>)]
    /\ last' = Call("migrate_user", Result(table, "", NoItem, 0))
    /\ UNCHANGED <<table, flagged, adds, removes, writers, cognito, callers>>

migrate_user_count ==
    /\ mig.pc = "started"
    /\ mig' = [mig EXCEPT !.pc = "counted",
                          !.new_count = dynamo_count_archived_posts(table, UserIdOf(mig.item)),
                          !.log = Append(@, <<"counting archived posts", UserIdOf(mig.item)>>)]
    /\ last' = Call("migrate_user", Result(table, "", NoItem, 0))
    /\ UNCHANGED <<table, flagged, adds, removes, writers, cognito, callers>>

StoredCount(item) == IF Has(item, "postArchivedCount") THEN Some(item.postArchivedCount) ELSE None

\* mutant: the stored count is written back in place of the recomputed one
migrate_user_update_stored ==
    LET old_count == StoredCount(mig.item)
        r == dynamo_update_user_result(table, UserIdOf(mig.item), old_count,
                                       IF old_count = None THEN 0 ELSE old_count[1])
    IN  /\ mig.pc = "counted"
        /\ table' = r.tbl
        /\ last' = Call("migrate_user_update", r)
        /\ mig' = [mig EXCEPT !.pc = IF r.err = "" THEN "updated" ELSE "failed",
                              !.before = get_item(table, User_pk(UserIdOf(mig.item))),
                              !.writes = IF r.err = "" THEN @ + 1 ELSE @,
                              !.log = Append(@, <<"updating user record", UserIdOf(mig.item)>>)]
        /\ UNCHANGED <<flagged, adds, removes, writers, cognito, callers>>

migrate_user_update ==
    LET r == dynamo_update_user_result(table, UserIdOf(mig.item), StoredCount(mig.item), mig.new_count)
    IN  /\ mig.pc = "counted"
        /\ table' = r.tbl
        /\ last' = Call("migrate_user_update", r)
        /\ mig' = [mig EXCEPT !.pc = IF r.err = "" THEN "updated" ELSE "failed",
                              !.before = get_item(table, User_pk(UserIdOf(mig.item))),
                              !.writes = IF r.err = "" THEN @ + 1 ELSE @,
                              !.log = Append(@, <<"updating user record", UserIdOf(mig.item)>>)]
        /\ UNCHANGED <<flagged, adds, removes, writers, cognito, callers>>

\* mutant: the last line is logged twice
migrate_user_finish_twice ==
    /\ mig.pc = "updated"
    /\ mig' = [mig EXCEPT !.pc = IF Len(mig.page) > 0 THEN "page" ELSE "done",
                          !.log = @ \o <<<<"finished migration", UserIdOf(mig.item)>>,
                                         <<"finished migration", UserIdOf(mig.item)>>>>]
    /\ last' = Call("migrate_user", Result(table, "", NoItem, 0))
    /\ UNCHANGED <<table, flagged, adds, removes, writers, cognito, callers>>

migrate_user_finish ==
    /\ mig.pc = "updated"
    /\ mig' = [mig EXCEPT !.pc = IF Len(mig.page) > 0 THEN "page" ELSE "done",
                          !.log = Append(@, <<"finished migration", UserIdOf(mig.item)>>)]
    /\ last' = Call("migrate_user", Result(table, "", NoItem, 0))
    /\ UNCHANGED <<table, flagged, adds, removes, writers, cognito, callers>>

\* the fixtures, and writers running next to the migration
Writer_put_user(user_id, version, count) ==
    /\ User_pk(user_id) \notin DOMAIN table
    /\ table' = PutItem(table, UserItem(user_id, version, count))
    /\ last' = Call("put_user", Result(table', "", NoItem, 0))
    /\ UNCHANGED <<flagged, adds, removes, writers, mig, cognito, callers>>

Writer_put_archived_post(post_id, user_id) ==
    /\ Post_pk(post_id) \notin DOMAIN table
    /\ table' = PutItem(table, ArchivedPostItem(post_id, user_id))
    /\ last' = Call("put_archived_post", Result(table', "", NoItem, 0))
    /\ UNCHANGED <<flagged, adds, removes, writers, mig, cognito, callers>>

\* a concurrent writer changes the stored count of a user
Writer_set_archived_count(user_id, count) ==
    /\ User_pk(user_id) \in DOMAIN table
    /\ StoredCount(table[User_pk(user_id)]) # Some(count)
    /\ table' = PutItem(table, ("postArchivedCount" :> count) @@ table[User_pk(user_id)])
    /\ last' = Call("set_archived_count", Result(table', "", NoItem, 0))
    /\ mig' = [mig EXCEPT !.races = IF mig.runs > 0 THEN 1 ELSE @]
    /\ UNCHANGED <<flagged, adds, removes, writers, cognito, callers>>

----------------------------------------------------------------------------
(* UserManager.create_cognito_only_user (app/models/user/manager.py) *)

UpperCase == <<"A", "B", "C", "D", "E", "F", "G", "H", "I", "J", "K", "L", "M",
               "N", "O", "P", "Q", "R", "S", "T", "U", "V", "W", "X", "Y", "Z">>
LowerCase == <<"a", "b", "c", "d", "e", "f", "g", "h", "i", "j", "k", "l", "m",
               "n", "o", "p", "q", "r", "s", "t", "u", "v", "w", "x", "y", "z">>

\* str.lower()
lower(s) ==
    [i \in DOMAIN s |->
        IF \E j \in DOMAIN UpperCase : UpperCase[j] = s[i]
        THEN LowerCase[CHOOSE j \in DOMAIN UpperCase : UpperCase[j] = s[i]]
        ELSE s[i]]

S_true == <<"t", "r", "u", "e">>
S_false == <<"f", "a", "l", "s", "e">>
S_real == <<"r", "e", "a", "l">>

\* dict.get(name): None or Some(value); dict.get(name, default)
attrs_get(attrs, name) == IF name \in DOMAIN attrs THEN Some(attrs[name]) ELSE None

attrs_get_default(attrs, name, default) == IF name \in DOMAIN attrs THEN attrs[name] ELSE default

\* the truth value of an optional string: None and '' are false
Truthy(x) == x # None /\ x[1] # <<>>

\* the Cognito client, as create_cognito_only_user calls it
cognito_get_user_attributes(pool, user_id) ==
    IF user_id \in DOMAIN pool
    THEN [err |-> "", attrs |-> pool[user_id]]
    ELSE [err |-> "UserNotFoundException", attrs |-> NoAttrs]

\* preferred_username is an alias of the pool: no two users hold the same one
cognito_set_user_attributes(pool, user_id, attrs) ==
    IF /\ "preferred_username" \in DOMAIN attrs
       /\ \E u \in DOMAIN pool \ {user_id} :
             /\ Has(pool[u], "preferred_username")
             /\ pool[u].preferred_username = attrs.preferred_username
    THEN [err |-> "AliasExistsException", pool |-> pool]
    ELSE [err |-> "", pool |-> [pool EXCEPT ![user_id] = attrs @@ @]]

cognito_clear_user_attribute(pool, user_id, name) ==
    [err |-> "", pool |-> [pool EXCEPT ![user_id] = Without(@, {name})]]

\* UserDynamo.add_user: a create of the user's primary record
dynamo_add_user_item(user_id, username, email, phone) ==
    User_pk(user_id) @@
    [userId |-> user_id, username |-> username] @@
    (IF email # None THEN ("email" :> email[1]) ELSE NoAttrs) @@
    (IF phone # None THEN ("phoneNumber" :> phone[1]) ELSE NoAttrs)

dynamo_add_user(tbl, user_id, username, email, phone) ==
    LET r0 == client_add_item(tbl, [Item |-> dynamo_add_user_item(user_id, username, email, phone)])
    IN  IF r0.err = "ConditionalCheckFailedException" THEN Raise(r0, "UserAlreadyExists") ELSE r0

\* UserDynamo.get_user_by_username: the user record with that username, if any
dynamo_get_user_by_username(tbl, username) ==
    LET keys == {k \in DOMAIN tbl : k.sortKey = S_profile /\ Has(tbl[k], "username")
                                    /\ tbl[k].username = username}
    IN  IF keys = {} THEN NoItem ELSE tbl[CHOOSE k \in keys : TRUE]

CallerIds == {"c1", "c2"}

IdleCaller ==
    [pc |-> "idle", user_id |-> <<>>, username |-> <<>>, preferred_username |-> None,
     email |-> None, phone |-> None, err |-> "", follows |-> 0]

\* a caller makes one call at a time: its last call has returned or raised
Finished(c) == callers[c].pc \in {"returned", "raised"}

CallerStep(c, line, err) ==
    [op |-> "create_cognito_only_user", err |-> err, ret |-> NoItem, warnings |-> 0,
     steps |-> <<[caller |-> c, line |-> line]>>]

\* lines 146-161: read the user's attributes from the pool; the user must be in
\* the pool and have a verified email or phone (the username is taken as valid)
create_cognito_only_user_get(c, user_id, username) ==
    LET got == cognito_get_user_attributes(cognito, user_id)
        attrs == got.attrs
        preferred_username == attrs_get(attrs, "preferred_username")
        email == IF attrs_get_default(attrs, "email_verified", S_false) = S_true
                 THEN attrs_get(attrs, "email") ELSE None
        phone == IF attrs_get_default(attrs, "phone_number_verified", S_false) = S_true
                 THEN attrs_get(attrs, "phone_number") ELSE None
        err == IF got.err = "UserNotFoundException" THEN "UserValidationException"
               ELSE IF ~Truthy(email) /\ ~Truthy(phone) THEN "UserValidationException"
               ELSE ""
    IN  /\ callers[c].pc = "idle" \/ Finished(c)
        /\ callers' = [callers EXCEPT ![c] =
                          [pc |-> IF err = "" THEN "read" ELSE "raised",
                           user_id |-> user_id, username |-> username,
                           preferred_username |-> preferred_username,
                           email |-> email, phone |-> phone, err |-> err, follows |-> 0]]
        /\ last' = CallerStep(c, "get", err)
        /\ UNCHANGED <<table, flagged, adds, removes, writers, mig, cognito>>

\* lines 163-170: claim the lowercased username in the pool
create_cognito_only_user_claim(c) ==
    LET set == cognito_set_user_attributes(cognito, callers[c].user_id,
                   [preferred_username |-> lower(callers[c].username)])
        err == IF set.err = "AliasExistsException" THEN "UserValidationException" ELSE ""
    IN  /\ callers[c].pc = "read"
        /\ cognito' = set.pool
        /\ callers' = [callers EXCEPT ![c].pc = IF err = "" THEN "claimed" ELSE "raised",
                                      ![c].err = err]
        /\ last' = CallerStep(c, "claim", err)
        /\ UNCHANGED <<table, flagged, adds, removes, writers, mig>>

\* lines 172-178: create the user record; UserAlreadyExists is caught
create_cognito_only_user_add(c) ==
    LET r == dynamo_add_user(table, callers[c].user_id, callers[c].username,
                             callers[c].email, callers[c].phone)
    IN  /\ callers[c].pc = "claimed"
        /\ table' = r.tbl
        /\ callers' = [callers EXCEPT ![c].pc = IF r.err = "" THEN "created" ELSE "except"]
        /\ last' = CallerStep(c, "add", "")
        /\ UNCHANGED <<flagged, adds, removes, writers, mig, cognito>>

\* lines 178-184: un-claim the username in the pool and raise again; the pool
\* can refuse the old name as it refused a taken one at the claim, and the
\* handler does not catch that
create_cognito_only_user_unclaim(c) ==
    LET undone == IF Truthy(callers[c].preferred_username)
                  THEN cognito_set_user_attributes(cognito, callers[c].user_id,
                           [preferred_username |-> callers[c].preferred_username[1]])
                  ELSE cognito_clear_user_attribute(cognito, callers[c].user_id, "preferred_username")
    IN  /\ callers[c].pc = "except"
        /\ cognito' = undone.pool
        /\ callers' = [callers EXCEPT ![c].pc = "raised",
                                      ![c].err = IF undone.err = "" THEN "UserAlreadyExists"
                                                 ELSE undone.err]
        /\ last' = CallerStep(c, "unclaim", callers'[c].err)
        /\ UNCHANGED <<table, flagged, adds, removes, writers, mig>>

\* lines 186-188 and follow_real_user (259-262): the new user asks to follow the
\* real user, if there is one and it is another user
create_cognito_only_user_follow(c) ==
    LET real_user == dynamo_get_user_by_username(table, S_real)
        request == DOMAIN real_user # {} /\ real_user.userId # callers[c].user_id
    IN  /\ callers[c].pc = "created"
        /\ callers' = [callers EXCEPT ![c].pc = "returned",
                                      ![c].follows = IF request THEN @ + 1 ELSE @]
        /\ last' = CallerStep(c, "follow", "")
        /\ UNCHANGED <<table, flagged, adds, removes, writers, mig, cognito>>

\* the pool and the table before the calls: users signed up in the pool, and the
\* real user's record
Cognito_sign_up(user_id, attrs) ==
    /\ user_id \notin DOMAIN cognito
    /\ cognito' = (user_id :> attrs) @@ cognito
    /\ last' = Call("sign_up", Result(table, "", NoItem, 0))
    /\ UNCHANGED <<table, flagged, adds, removes, writers, mig, callers>>

Writer_put_real_user(user_id) ==
    /\ User_pk(user_id) \notin DOMAIN table
    /\ table' = PutItem(table, dynamo_add_user_item(user_id, S_real, None, None))
    /\ last' = Call("put_user", Result(table', "", NoItem, 0))
    /\ UNCHANGED <<flagged, adds, removes, writers, mig, cognito, callers>>

----------------------------------------------------------------------------
(* Specifications *)

\* no migration script is running
IdleMigration ==
    [pc |-> "idle", kind |-> "none", runs |-> 0, start_key |-> None, more |-> FALSE, page |-> <<>>,
     item |-> NoItem, new_count |-> 0, log |-> <<>>, writes |-> 0, yielded |-> <<>>,
     matching |-> {}, stable |-> {}, selected |-> {}, before |-> NoItem, races |-> 0]

IdleWriter == [pc |-> "idle", album_id |-> <<>>, old_rank_count |-> None, overlap |-> FALSE, deleted |-> FALSE]

Init ==
    /\ table = [k \in {} |-> NoItem]
    /\ last = [op |-> "init", err |-> "", ret |-> NoItem, warnings |-> 0, steps |-> <<>>]
    /\ flagged = {}
    /\ adds = [a \in AlbumIds |-> 0]
    /\ removes = [a \in AlbumIds |-> 0]
    /\ writers = [w \in WriterIds |-> IdleWriter]
    /\ mig = IdleMigration
    /\ cognito = [u \in {} |-> NoAttrs]
    /\ callers = [c \in CallerIds |-> IdleCaller]

A1 == <<"a", "1">>
A2 == <<"a", "2">>
U1 == <<"u", "1">>
N1 == <<"n", "1">>
N2 == <<"n", "2">>
D1 == <<"d", "1">>
H1 == <<"h", "1">>
P1 == <<"p", "1">>
P2 == <<"p", "2">>

FlagTargets == {<<S_post, P1>>, <<S_post, P2>>}

\* flag operations alone
NextFlag ==
    \/ \E f \in FlagTargets, u \in UserIds, now \in Times : Flag_add(f[1], f[2], u, now)
    \/ \E f \in FlagTargets, u \in UserIds : Flag_delete(f[1], f[2], u)
    \/ \E f \in FlagTargets, u \in UserIds : Flag_get(f[1], f[2], u)
    \/ \E f \in FlagTargets : Flag_delete_all_for_item(f[1], f[2])

SpecFlag == Init /\ [][NextFlag]_vars

\* creation, lookup and deletion of flags and albums
NextLifecycle ==
    \/ \E u \in UserIds, now \in Times : Flag_add(S_post, P1, u, now)
    \/ \E u \in UserIds : Flag_delete(S_post, P1, u)
    \/ \E u \in UserIds : Flag_get(S_post, P1, u)
    \/ Flag_delete_all_for_item(S_post, P1)
    \/ \E u \in UserIds, n \in {N1, N2}, d \in {None, Some(D1)}, t \in Times :
          add_album(A1, u, n, d, t)
    \/ delete_album(A1)
    \/ get_album(A1)

SpecLifecycle == Init /\ [][NextLifecycle]_vars

\* one album under single-step transactions
NextCounters ==
    \/ \E t \in Times : add_album(A1, U1, N1, None, t)
    \/ delete_album(A1)
    \/ \E now \in Times : \E r1 \in StepRequests({A1}, now) : transact_write_items(<<r1>>)

SpecCounters == Init /\ [][NextCounters]_vars

\* two albums under transactions of one or two steps
NextTransact ==
    \/ \E a \in AlbumIds : add_album(a, U1, N1, None, 1)
    \/ \E a \in AlbumIds : delete_album(a)
    \/ \E r1 \in StepRequests(AlbumIds, 1) : transact_write_items(<<r1>>)
    \/ \E r1 \in StepRequests({A1}, 1), r2 \in StepRequests({A2}, 1) :
          transact_write_items(<<r1, r2>>)

SpecTransact == Init /\ [][NextTransact]_vars

\* two concurrent callers of transact_add_post on one album
NextWriters ==
    \/ add_album(A1, U1, N1, None, 1)
    \/ delete_album(A1)
    \/ \E w \in WriterIds : Writer_build(w, A1)
    \/ \E w \in WriterIds : Writer_commit(w, 1)
    \/ \E r1 \in StepRequests({A1}, 1) : transact_write_items(<<r1>>)

SpecWriters == Init /\ [][NextWriters]_vars

\* every operation of AlbumDynamo on one album id
NextAlbum ==
    \/ \E t \in Times : set_delete_at_fail_soft(A1, t)
    \/ clear_delete_at_fail_soft(A1)
    \/ add_album(A1, U1, N1, None, 1)
    \/ delete_album(A1)
    \/ get_album(A1)
    \/ \E n \in {None, Some(<<>>), Some(N2)}, d \in {None, Some(<<>>), Some(D1)} : Album_set(A1, n, d)
    \/ \E h \in {None, Some(<<>>), Some(H1)} : set_album_art_hash(A1, h)
    \/ \E r1 \in StepRequests({A1}, 1) : transact_write_items(<<r1>>)

SpecAlbum == Init /\ [][NextAlbum]_vars

\* flag and album operations on one table
IndexFlags == {<<S_post, P1, U1>>, <<S_album, A1, <<"u", "2">>>>}

IndexSteps ==
    {AddRequest(A1, None, 1), RemoveRequest(A1, 1),
     [kind |-> "transact_increment_rank_count", album_id |-> A1, old_rank_count |-> Some(1), now |-> 1]}

NextIndex ==
    \/ \E f \in IndexFlags : Flag_add(f[1], f[2], f[3], 1)
    \/ \E f \in IndexFlags : Flag_delete(f[1], f[2], f[3])
    \/ \E f \in IndexFlags : Flag_delete_all_for_item(f[1], f[2])
    \/ \E u \in UserIds, t \in Times : add_album(A1, u, N1, None, t)
    \/ delete_album(A1)
    \/ Album_set(A1, None, Some(D1))
    \/ set_album_art_hash(A1, Some(H1))
    \/ set_delete_at_fail_soft(A1, 1)
    \/ clear_delete_at_fail_soft(A1)
    \/ \E r1 \in IndexSteps : transact_write_items(<<r1>>)

SpecIndex == Init /\ [][NextIndex]_vars

P3 == <<"p", "3">>
PostIds == {P1, P2, P3}

Stops == {None} \cup {Some(ScanOrder[i]) : i \in DOMAIN ScanOrder}

\* one run of the post migration next to writers of post records, on a table that
\* may hold an album too
NextPosts ==
    \/ mig.pc # "done" /\ \E stop \in Stops : generate_all_posts(0, stop)
    \/ update_post_from_0_to_1
    \/ \E p \in {P1, P2} : Writer_put_post(p, 0)
    \/ \E p \in {P1, P2} : Writer_delete_post(p)
    \/ \E p \in {P1, P2} : Writer_update_post(p)
    \/ mig.runs = 0 /\ add_album(A1, U1, N1, None, 1)

SpecPosts == Init /\ [][NextPosts]_vars

Between == mig.pc \in {"idle", "done"}

\* the post migration run up to twice, with writers before and between the runs
\* only, on a table that may hold a flag and an album too
NextRerun ==
    \/ \E stop \in Stops : generate_all_posts(0, stop)
    \/ update_post_from_0_to_1
    \/ Between /\ \E p \in PostIds, v \in {0, 2} : Writer_put_post(p, v)
    \/ Between /\ \E p \in PostIds : Writer_delete_post(p)
    \/ mig.runs = 0 /\ Flag_add(S_post, P1, U1, 1)
    \/ mig.runs = 0 /\ Flag_delete(S_post, P1, U1)
    \/ mig.runs = 0 /\ add_album(A1, U1, N1, None, 1)

SpecRerun == Init /\ [][NextRerun]_vars

\* one run of the post migration on posts written before it, next to a deleter
\* of posts and to another run of the script
NextRace ==
    \/ mig.pc # "done" /\ \E stop \in Stops : generate_all_posts(0, stop)
    \/ update_post_from_0_to_1
    \/ mig.runs = 0 /\ \E p \in PostIds : Writer_put_post(p, 0)
    \/ \E p \in PostIds : Writer_delete_post(p)
    \/ \E p \in PostIds : Writer_migrate_post(p)

SpecRace == Init /\ [][NextRace]_vars

\* the user migration on the tables of the fixtures, dynamo_update_user on its
\* own, and a writer of the stored count next to them
Counts == {None, Some(0), Some(2)}

NextUsers ==
    \/ mig.runs = 0 /\ \E u \in UserIds, v \in {6, 7}, c \in Counts : Writer_put_user(u, v, c)
    \/ mig.runs = 0 /\ \E p \in {P1, P2}, u \in UserIds : Writer_put_archived_post(p, u)
    \/ \E c \in {0, 1} : Writer_set_archived_count(U1, c)
    \/ Migration_run
    \/ migrate_user_start
    \/ migrate_user_count
    \/ migrate_user_update
    \/ migrate_user_finish
    \/ mig.runs = 0 /\ \E old \in Counts \cup {Some(1)}, new \in 0..2 : dynamo_update_user(U1, old, new)

SpecUsers == Init /\ [][NextUsers]_vars

\* flag operations, album operations and the post migration on one table
NextSchema ==
    \/ mig.runs = 0 /\ Writer_put_post(P1, 0)
    \/ mig.pc # "done" /\ generate_all_posts(0, None)
    \/ update_post_from_0_to_1
    \/ Flag_add(S_post, P1, U1, 1)
    \/ Flag_delete(S_post, P1, U1)
    \/ add_album(A1, U1, N1, None, 1)
    \/ delete_album(A1)
    \/ Album_set(A1, None, Some(D1))
    \/ set_album_art_hash(A1, Some(H1))
    \/ set_delete_at_fail_soft(A1, 1)
    \/ clear_delete_at_fail_soft(A1)
    \/ \E r1 \in IndexSteps : transact_write_items(<<r1>>)

SpecSchema == Init /\ [][NextSchema]_vars

\* key encoding alone: two logical entities and their physical keys
\* ids are any non-empty strings, '/' included, of at most MaxIdLen characters
RECURSIVE StringsOfLen(_, _)
StringsOfLen(alphabet, n) ==
    IF n = 0 THEN {<<>>}
    ELSE {s \o <<c>> : s \in StringsOfLen(alphabet, n - 1), c \in alphabet}

Ids == UNION {StringsOfLen({"1", "/"}, n) : n \in 1..MaxIdLen}

\* item types contain no '/'
ItemTypes == {S_post, S_comment, S_album}

Entities ==
    [kind : {"flag"}, item_type : ItemTypes, item_id : Ids, user_id : UserIds]
    \cup [kind : {"album"}, album_id : Ids]
    \cup [kind : {"post"}, post_id : Ids]

pk(e) ==
    CASE e.kind = "flag" -> Flag_pk(e.item_type, e.item_id, e.user_id)
      [] e.kind = "album" -> Album_pk(e.album_id)
      [] e.kind = "post" -> Post_pk(e.post_id)

EncodeKeys(e1, e2) ==
    /\ last' = [op |-> "pk", err |-> "", ret |-> [e1 |-> e1, e2 |-> e2, k1 |-> pk(e1), k2 |-> pk(e2)],
                warnings |-> 0, steps |-> <<>>]
    /\ UNCHANGED <<table, flagged, adds, removes, writers, mig, cognito, callers>>

\* the first call encodes any two entities, a later call replaces one of the two
NextKeys ==
    \/ last.op = "init" /\ \E e1, e2 \in Entities : EncodeKeys(e1, e2)
    \/ last.op = "pk" /\ \E e1 \in Entities : EncodeKeys(e1, last.ret.e2)
    \/ last.op = "pk" /\ \E e2 \in Entities : EncodeKeys(last.ret.e1, e2)

SpecKeys == Init /\ [][NextKeys]_vars

\* calls of create_cognito_only_user by two callers, one call after another and
\* next to each other, for users that signed up in the pool
Usernames == {<<"A", "b">>, <<"B", "o">>}

S_email == <<"e", "@", "x">>

SignUps ==
    {[email |-> S_email, email_verified |-> S_true],
     [email |-> S_email, email_verified |-> S_false]}

R1 == <<"r", "1">>

NoCallYet == \A c \in CallerIds : callers[c].pc = "idle"

NextCreateUser ==
    \/ NoCallYet /\ \E u \in UserIds, attrs \in SignUps : Cognito_sign_up(u, attrs)
    \/ NoCallYet /\ Writer_put_real_user(R1)
    \/ \E n \in Usernames : create_cognito_only_user_get("c1", U1, n)
    \/ \E u \in UserIds, n \in Usernames : create_cognito_only_user_get("c2", u, n)
    \/ \E c \in CallerIds : create_cognito_only_user_claim(c)
    \/ \E c \in CallerIds : create_cognito_only_user_add(c)
    \/ \E c \in CallerIds : create_cognito_only_user_unclaim(c)
    \/ \E c \in CallerIds : create_cognito_only_user_follow(c)

SpecCreateUser == Init /\ [][NextCreateUser]_vars

\* flags of two item types on items that can have a primary record, next to an
\* album that is in the same index for its scheduled deletion
FlagTypes == {S_post, S_comment}

TypedItems == {<<S_post, P1>>, <<S_post, <<"p", "/">>>>, <<S_comment, P1>>}

NextFlagTypes ==
    \/ \E f \in TypedItems, u \in UserIds : Flag_add(f[1], f[2], u, 1)
    \/ \E f \in TypedItems, u \in UserIds : Flag_delete(f[1], f[2], u)
    \/ \E f \in TypedItems : Flag_delete_all_for_item(f[1], f[2])
    \/ \E t \in FlagTypes, u \in UserIds : Flag_item_ids_by_user(t, u)
    \/ Writer_put_post(P1, 0)
    \/ add_album(A1, U1, N1, None, 1)
    \/ set_delete_at_fail_soft(A1, 1)

SpecFlagTypes == Init /\ [][NextFlagTypes]_vars

----------------------------------------------------------------------------
(* Claims *)

AlbumItem(album_id) == get_item(table, Album_pk(album_id))

AlbumExists(tbl, album_id) == Album_pk(album_id) \in DOMAIN tbl

LastStepWas(kind, album_id) ==
    /\ last.op = "transact_write_items"
    /\ Len(last.steps) = 1
    /\ last.steps[1] = [kind |-> kind, album_id |-> album_id]

\* C1: in every state reached by committed transact_add_post, transact_remove_post
\* and transact_increment_rank_count steps, no album's postCount is negative
\* (an absent postCount counts as 0).
C1_PostCountNeverNegative ==
    \A a \in AlbumIds : PostCountOf(table, a) >= 0

\* C1 witness: a remove_post step has committed and brought postCount down to 0.
C1_Witness ==
    /\ LastStepWas("transact_remove_post", A1)
    /\ last.err = ""
    /\ Has(AlbumItem(A1), "postCount")
    /\ AlbumItem(A1).postCount = 0

\* C2: a second Flag add for a flagged triple raises AlreadyFlagged, a second
\* add_album for an existing album id raises AlbumAlreadyExists, and in both
\* cases the store is left exactly as the first call wrote it.
C2_SecondCreateFails ==
    [][/\ \A u \in UserIds, now \in Times :
             (Flag_add(S_post, P1, u, now) /\ Flag_pk(S_post, P1, u) \in DOMAIN table)
                 => (table' = table /\ last'.err = "AlreadyFlagged")
       /\ \A u \in UserIds, n \in {N1, N2}, d \in {None, Some(D1)}, t \in Times :
             (add_album(A1, u, n, d, t) /\ AlbumExists(table, A1))
                 => (table' = table /\ last'.err = "AlbumAlreadyExists")]_vars

\* C2 witness: add_album has been refused for an album that exists, while a flag
\* record exists too.
C2_Witness ==
    /\ last.op = "add_album"
    /\ last.err = "AlbumAlreadyExists"
    /\ AlbumExists(table, A1)
    /\ flagged # {}

\* C3: deleting a key with no record raises NotFlagged / AlbumDoesNotExist and
\* leaves the store unchanged; deleting a key with a record removes that record
\* and no other, and a get of a key with no record returns nothing.
C3_Delete ==
    [][/\ \A u \in UserIds :
             Flag_delete(S_post, P1, u) =>
                 IF Flag_pk(S_post, P1, u) \in DOMAIN table
                 THEN /\ last'.err = ""
                      /\ table' = RemoveKeys(table, {Flag_pk(S_post, P1, u)})
                      /\ Flag_pk(S_post, P1, u) \notin DOMAIN table'
                 ELSE table' = table /\ last'.err = "NotFlagged"
       /\ delete_album(A1) =>
             IF AlbumExists(table, A1)
             THEN /\ last'.err = ""
                  /\ table' = RemoveKeys(table, {Album_pk(A1)})
                  /\ ~AlbumExists(table', A1)
             ELSE table' = table /\ last'.err = "AlbumDoesNotExist"
       /\ \A u \in UserIds :
             (Flag_get(S_post, P1, u) /\ Flag_pk(S_post, P1, u) \notin DOMAIN table)
                 => DOMAIN last'.ret = {}
       /\ (get_album(A1) /\ ~AlbumExists(table, A1)) => DOMAIN last'.ret = {}]_vars

\* C3 witness: delete_album has raised AlbumDoesNotExist for an album with no
\* record, while a flag record exists.
C3_Witness ==
    /\ last.op = "delete_album"
    /\ last.err = "AlbumDoesNotExist"
    /\ ~AlbumExists(table, A1)
    /\ flagged # {}

\* C4: a flag record for (item_type, item_id, user_id) exists if and only if the
\* last successful operation on that triple was an add, and get returns the
\* record exactly in that case.
C4_FlagExistsIffFlagged ==
    /\ DOMAIN table = {Flag_pk(f[1], f[2], f[3]) : f \in flagged}
    /\ \A f \in FlagTargets, u \in UserIds :
          (DOMAIN get_item(table, Flag_pk(f[1], f[2], u)) # {}) <=> (<<f[1], f[2], u>> \in flagged)
    /\ \A f \in flagged :
          KeyOf(get_item(table, Flag_pk(f[1], f[2], f[3]))) = Flag_pk(f[1], f[2], f[3])

\* C4 witness: delete_all_for_item has removed the flags of one item while two
\* flags of the other item remain.
C4_Witness ==
    /\ last.op = "Flag_delete_all_for_item"
    /\ Cardinality(flagged) = 2
    /\ Cardinality(DOMAIN table) = 2

\* C5: a transact_remove_post step on an album whose postCount is 0 or absent, or
\* on an album id with no record, fails its condition and writes nothing.
C5_RemoveAtZeroFails ==
    [][\A now \in Times :
          (TransactCommit(<<RemoveRequest(A1, now)>>) /\ PostCountOf(table, A1) = 0)
              => (table' = table /\ last'.err = "TransactionCanceledException")]_vars

\* C5 witness: a remove_post step has been cancelled on an album whose postCount
\* is 0.
C5_Witness ==
    /\ LastStepWas("transact_remove_post", A1)
    /\ last.err = "TransactionCanceledException"
    /\ Has(AlbumItem(A1), "postCount")
    /\ AlbumItem(A1).postCount = 0

\* what a step asks of the stored album record, and what it makes of it
ExpectedCondition(tbl, req) ==
    LET item == get_item(tbl, Album_pk(req.album_id))
    IN  /\ AlbumExists(tbl, req.album_id)
        /\ CASE req.kind = "transact_add_post" ->
                   IF req.old_rank_count = None THEN ~Has(item, "rankCount")
                   ELSE Has(item, "rankCount") /\ item.rankCount = req.old_rank_count[1]
             [] req.kind = "transact_remove_post" ->
                   Has(item, "postCount") /\ item.postCount > 0
             [] req.kind = "transact_increment_rank_count" ->
                   Has(item, "rankCount") /\ item.rankCount = req.old_rank_count[1]

ExpectedItem(tbl, req) ==
    LET item == get_item(tbl, Album_pk(req.album_id))
        pc == PostCountOf(tbl, req.album_id)
        rc == RankCountOf(tbl, req.album_id)
        at == ("postsLastUpdatedAt" :> to_iso8601_string(req.now))
    IN  CASE req.kind = "transact_add_post" ->
                ("postCount" :> pc + 1) @@ ("rankCount" :> rc + 1) @@ at @@ item
          [] req.kind = "transact_remove_post" ->
                ("postCount" :> pc - 1) @@ at @@ item
          [] req.kind = "transact_increment_rank_count" ->
                ("rankCount" :> rc + 1) @@ at @@ item

BothCommitted(v, w) ==
    /\ v # w
    /\ writers[v].pc = "committed"
    /\ writers[w].pc = "committed"
    /\ SameObservation(writers[v], writers[w])
    /\ writers[v].overlap

\* C6 as stated: of two concurrent transact_add_post steps built from the same
\* observed rank count, at most one commits.
C6_AtMostOneCommits ==
    \A v, w \in WriterIds : ~BothCommitted(v, w)

C6_AtMostOneUnlessRecreated ==
    \A v, w \in WriterIds : BothCommitted(v, w) => writers[w].deleted

\* C6 amended: a transact_add_post step built with old_rank_count = r commits only
\* if the album record exists and its rankCount equals r (None: has no rankCount),
\* and a step that fails writes nothing; of two concurrent steps built from the
\* same observed rank count at most one commits, unless the album record was
\* deleted and created again between the building of the second and its commit.
C6_AddPostCommitsOnObservedRank ==
    [][/\ (last'.op = "transact_write_items" /\ Len(last'.steps) = 1) =>
             \A orc \in OldRankCounts, now \in Times :
                \/ IF last'.err = ""
                   THEN ExpectedCondition(table, AddRequest(A1, orc, now))
                   ELSE table' = table
                \/ ~TransactCommit(<<AddRequest(A1, orc, now)>>)
       /\ C6_AtMostOneUnlessRecreated']_vars

\* C6 witness: two writers built from the same observation; one has committed,
\* the other has been cancelled.
C6_Witness ==
    /\ writers["w1"].pc = "committed"
    /\ writers["w1"].overlap
    /\ writers["w2"].pc = "failed"
    /\ last.op = "transact_write_items"
    /\ last.err = "TransactionCanceledException"

\* C7: on an album as add_album creates it (no postCount, no rankCount), a
\* transact_add_post step with old_rank_count = None commits and leaves
\* postCount = 1, rankCount = 1 and postsLastUpdatedAt at the step's time.
C7_FirstAddPost ==
    [][\A now \in Times :
          (/\ TransactCommit(<<AddRequest(A1, None, now)>>)
           /\ AlbumExists(table, A1)
           /\ ~Has(AlbumItem(A1), "postCount")
           /\ ~Has(AlbumItem(A1), "rankCount"))
          => /\ last'.err = ""
             /\ AlbumExists(table', A1)
             /\ table'[Album_pk(A1)] =
                   [postCount |-> 1, rankCount |-> 1,
                    postsLastUpdatedAt |-> to_iso8601_string(now)] @@ AlbumItem(A1)]_vars

\* C7 witness: the first add_post step on a new album has committed.
C7_Witness ==
    /\ LastStepWas("transact_add_post", A1)
    /\ last.err = ""
    /\ adds[A1] = 1
    /\ removes[A1] = 0
    /\ PostCountOf(table, A1) = 1
    /\ RankCountOf(table, A1) = 1

\* C8: after n committed transact_add_post steps and n committed
\* transact_remove_post steps postCount is back at its starting value: in every
\* state postCount is the number of add_post steps less the number of remove_post
\* steps committed on the record (an absent postCount counts as 0).
C8_AddsLessRemoves ==
    \A a \in AlbumIds : PostCountOf(table, a) = adds[a] - removes[a]

\* C8 witness: two add_post steps and then two remove_post steps have committed.
C8_Witness ==
    /\ LastStepWas("transact_remove_post", A1)
    /\ last.err = ""
    /\ adds[A1] = 2
    /\ removes[A1] = 2
    /\ AlbumExists(table, A1)

\* C9: a transaction of two album steps is all-or-nothing: if the condition of
\* either step fails, the store is unchanged; if both hold, both updates are
\* applied and nothing else changes.
C9_Outcome(r1, r2) ==
    IF ExpectedCondition(table, r1) /\ ExpectedCondition(table, r2)
    THEN /\ last'.err = ""
         /\ table' = (Album_pk(A1) :> ExpectedItem(table, r1)) @@
                     (Album_pk(A2) :> ExpectedItem(table, r2)) @@ table
    ELSE /\ last'.err = "TransactionCanceledException"
         /\ table' = table

C9_AllOrNothing ==
    [][(last'.op = "transact_write_items" /\ Len(last'.steps) = 2) =>
          \A r1 \in {r \in StepRequests({A1}, 1) : r.kind = last'.steps[1].kind},
             r2 \in {r \in StepRequests({A2}, 1) : r.kind = last'.steps[2].kind} :
                C9_Outcome(r1, r2) \/ ~TransactCommit(<<r1, r2>>)]_vars

\* C9 witness: a transaction of a remove_post step whose condition holds and an
\* add_post step has been cancelled.
C9_Witness ==
    /\ last.op = "transact_write_items"
    /\ last.err = "TransactionCanceledException"
    /\ last.steps = <<[kind |-> "transact_remove_post", album_id |-> A1],
                      [kind |-> "transact_add_post", album_id |-> A2]>>
    /\ PostCountOf(table, A1) > 0

\* C10: an album record comes into existence only through add_album: no other
\* operation on an album id with no record creates one.
C10_OnlyAddAlbumCreates ==
    [][(~AlbumExists(table, A1) /\ AlbumExists(table', A1)) => last'.op = "add_album"]_vars

\* C11: when the condition of set_delete_at_fail_soft does not hold (postCount is
\* greater than 0) the call raises nothing, its one update attempt is reported as
\* a single warning, nothing is returned and the store is left unchanged.
C11_FailSoftLeavesRecord ==
    [][(last'.op = "set_delete_at_fail_soft" /\ PostCountOf(table, A1) > 0) =>
          \A t \in Times :
             \/ /\ last'.err = ""
                /\ last'.warnings = 1
                /\ DOMAIN last'.ret = {}
                /\ table' = table
             \/ ~set_delete_at_fail_soft(A1, t)]_vars

\* C11 witness: set_delete_at_fail_soft has been refused with one warning on an
\* album that has a post.
C11_Witness ==
    /\ last.op = "set_delete_at_fail_soft"
    /\ last.warnings = 1
    /\ last.err = ""
    /\ PostCountOf(table, A1) > 0

\* C12: key encoding is injective: two distinct logical entities (flag triples
\* whose item type contains no '/', albums, primary post records) never have the
\* same physical (partitionKey, sortKey).
C12_KeysInjective ==
    last.op = "pk" => (last.ret.e1 # last.ret.e2 => last.ret.k1 # last.ret.k2)

\* C12 witness: a flag on an album and the album's primary record, whose ids both
\* contain a '/', share the partition key and differ in the sort key.
C12_Witness ==
    /\ last.op = "pk"
    /\ last.ret.e1.kind = "flag"
    /\ last.ret.e2.kind = "album"
    /\ last.ret.e1.item_id = <<"1", "/">>
    /\ last.ret.k1.partitionKey = last.ret.k2.partitionKey
    /\ last.ret.k1 # last.ret.k2

IsFlagKey(key) == begins_with(key.sortKey, S_flag \o Slash)

IsAlbumKey(key) == begins_with(key.partitionKey, S_album \o Slash) /\ key.sortKey = Dash

FirstSlash(s) == CHOOSE i \in 1..Len(s) : s[i] = "/" /\ \A j \in 1..(i - 1) : s[j] # "/"

\* the item type a partition key starts with, and the user id a flag's sort key ends with
ItemTypeOfKey(key) == SubSeq(key.partitionKey, 1, FirstSlash(key.partitionKey) - 1)

UserIdOfKey(key) == SubSeq(key.sortKey, Len(S_flag) + 2, Len(key.sortKey))

AlbumIndexAttrs == {"createdAt", "ownedByUserId", "gsiA1PartitionKey", "gsiA1SortKey"}

FlagIndexAgrees(tbl) ==
    \A key \in DOMAIN tbl :
       IsFlagKey(key) =>
          /\ Has(tbl[key], "gsiK1PartitionKey")
          /\ tbl[key].gsiK1PartitionKey = S_flag \o Slash \o UserIdOfKey(key)
          /\ Has(tbl[key], "gsiK1SortKey")
          /\ tbl[key].gsiK1SortKey = ItemTypeOfKey(key)

AlbumIndexAgrees(tbl) ==
    \A key \in DOMAIN tbl :
       (IsAlbumKey(key) /\ AlbumIndexAttrs \cap DOMAIN tbl[key] # {}) =>
          /\ AlbumIndexAttrs \subseteq DOMAIN tbl[key]
          /\ tbl[key].gsiA1PartitionKey = S_album \o Slash \o tbl[key].ownedByUserId
          /\ tbl[key].gsiA1SortKey = tbl[key].createdAt

\* C13: in every state reached by flag and album operations, a flag record's
\* gsiK1PartitionKey is 'flag/' + the user id of its sortKey and its gsiK1SortKey
\* is the item type its partitionKey starts with; a record created by add_album
\* has gsiA1PartitionKey = 'album/' + ownedByUserId and gsiA1SortKey = createdAt;
\* and no operation on an album that exists before and after it changes
\* createdAt, ownedByUserId, gsiA1PartitionKey or gsiA1SortKey.
C13_IndexAgrees ==
    [][/\ FlagIndexAgrees(table')
       /\ AlbumIndexAgrees(table')
       /\ (last'.op = "add_album" /\ last'.err = "") =>
             AlbumIndexAttrs \subseteq DOMAIN get_item(table', Album_pk(A1))
       /\ (AlbumExists(table, A1) /\ AlbumExists(table', A1)) =>
             \A attr \in AlbumIndexAttrs :
                /\ Has(AlbumItem(A1), attr) <=> Has(table'[Album_pk(A1)], attr)
                /\ Has(AlbumItem(A1), attr) => table'[Album_pk(A1)][attr] = AlbumItem(A1)[attr]]_vars

\* C13 witness: set_delete_at_fail_soft has written the deleteAt index of an album
\* that add_album created at the second instant, while the album is flagged.
C13_Witness ==
    /\ last.op = "set_delete_at_fail_soft"
    /\ last.warnings = 0
    /\ AlbumExists(table, A1)
    /\ Has(AlbumItem(A1), "gsiA1SortKey")
    /\ AlbumItem(A1).gsiA1SortKey = to_iso8601_string(2)
    /\ Has(AlbumItem(A1), "gsiK1SortKey")
    /\ Flag_pk(S_album, A1, <<"u", "2">>) \in DOMAIN table

\* the arguments of the call of dynamo_update_user that the step made
UpdateUserArgs ==
    IF last'.op = "dynamo_update_user" THEN last'.steps[1]
    ELSE [user_id |-> UserIdOf(mig.item), old_count |-> StoredCount(mig.item), new_count |-> mig.new_count]

UserRecord(tbl, user_id) == get_item(tbl, User_pk(user_id))

\* C14: dynamo_update_user(user_id, old_count, new_count), called on its own or by
\* the migration, succeeds exactly when the stored user's postArchivedCount equals
\* old_count (None: the attribute is absent); otherwise it raises 'Update failed
\* for user' and the store, with the postArchivedCount and schemaVersion that the
\* concurrent writer left, is unchanged.
C14_UpdateDetectsRace ==
    [][(last'.op \in {"dynamo_update_user", "migrate_user_update"}) =>
          LET args == UpdateUserArgs
              stored == UserRecord(table, args.user_id)
              matches == DOMAIN stored # {} /\ StoredCount(stored) = args.old_count
          IN  IF matches
              THEN /\ last'.err = ""
                   /\ UserRecord(table', args.user_id).schemaVersion = 7
              ELSE /\ last'.err = "Update failed for user"
                   /\ table' = table]_vars

\* C14 witness: the update of the migration has failed on a user at schemaVersion
\* 6 whose stored count a writer changed after the scan read it.
C14_Witness ==
    /\ last.op = "migrate_user_update"
    /\ last.err = "Update failed for user"
    /\ mig.pc = "failed"
    /\ mig.races = 1
    /\ StoredCount(mig.item) = Some(2)
    /\ StoredCount(UserRecord(table, U1)) = Some(1)
    /\ UserRecord(table, U1).schemaVersion = 6

SchemaVersionIs(item, version) == Has(item, "schemaVersion") /\ item.schemaVersion = version

\* C15: a run of the post migration changes only records whose schemaVersion is 0,
\* the version migrated from (records at version 1 or higher are left exactly as
\* they were, and no record is added or removed), and a second run right after a
\* completed run yields nothing, writes nothing and prints nothing.
C15_RunWritesSourceVersionOnly ==
    [][/\ (last'.op \in {"scan", "update_post_from_0_to_1"}) =>
             /\ DOMAIN table' = DOMAIN table
             /\ \A key \in DOMAIN table :
                   table'[key] # table[key] => SchemaVersionIs(table[key], 0)
       /\ (mig'.runs = 2 /\ mig'.races = 0) =>
             /\ mig'.writes = 0
             /\ mig'.log = <<>>
             /\ mig'.yielded = <<>>]_vars

\* C15 witness: the second run has completed right after the first on a table
\* with two posts at version 1 and one at version 2.
C15_Witness ==
    /\ mig.runs = 2
    /\ mig.pc = "done"
    /\ mig.races = 0
    /\ mig.writes = 0
    /\ SchemaVersionIs(get_item(table, Post_pk(P1)), 1)
    /\ SchemaVersionIs(get_item(table, Post_pk(P2)), 1)
    /\ SchemaVersionIs(get_item(table, Post_pk(P3)), 2)

\* C16: schemaVersion is monotonic: a record that Flag add or add_album creates has
\* schemaVersion 0, and in every step a record that stays keeps its schemaVersion
\* (or keeps having none), except that update_post_from_0_to_1 takes a record from
\* exactly 0 to exactly 1; so no schemaVersion decreases or skips a version.
C16_SchemaVersionMonotonic ==
    [][\A key \in DOMAIN table' :
          IF key \notin DOMAIN table
          THEN (last'.op \in {"Flag_add", "add_album"}) => SchemaVersionIs(table'[key], 0)
          ELSE /\ Has(table'[key], "schemaVersion") <=> Has(table[key], "schemaVersion")
               /\ Has(table[key], "schemaVersion") =>
                     \/ table'[key].schemaVersion = table[key].schemaVersion
                     \/ /\ last'.op = "update_post_from_0_to_1"
                        /\ table[key].schemaVersion = 0
                        /\ table'[key].schemaVersion = 1]_vars

\* C16 witness: the migration has taken a post from version 0 to version 1 on a
\* table that holds a flag and an album with counters, both at version 0.
C16_Witness ==
    /\ last.op = "update_post_from_0_to_1"
    /\ last.err = ""
    /\ SchemaVersionIs(get_item(table, Post_pk(P1)), 1)
    /\ SchemaVersionIs(get_item(table, Flag_pk(S_post, P1, U1)), 0)
    /\ SchemaVersionIs(AlbumItem(A1), 0)
    /\ RankCountOf(table, A1) = 2

\* the archived posts of a user that the store holds
ArchivedPostsOf(tbl, user_id) ==
    Cardinality({p \in {P1, P2} : get_item(tbl, Post_pk(p)) = ArchivedPostItem(p, user_id)})

MigratedAttrs == {"schemaVersion", "postArchivedCount"}

\* C17: when the migration updates a user at schemaVersion 6, the user is then at
\* schemaVersion 7 and its postArchivedCount is the number of the user's archived
\* posts in the store, whatever count was stored before; with no archived post
\* and no stored count the attribute stays absent; every other attribute of the
\* user record is unchanged.
C17_RecomputedCountWins ==
    [][(last'.op = "migrate_user_update" /\ last'.err = "") =>
          LET user_id == UserIdOf(mig.item)
              old == UserRecord(table, user_id)
              new == UserRecord(table', user_id)
              n == ArchivedPostsOf(table, user_id)
          IN  /\ SchemaVersionIs(old, 6)
              /\ SchemaVersionIs(new, 7)
              /\ Has(new, "postArchivedCount") => new.postArchivedCount = n
              /\ ~Has(new, "postArchivedCount") => n = 0
              /\ (n = 0 /\ ~Has(old, "postArchivedCount")) => ~Has(new, "postArchivedCount")
              /\ Without(new, MigratedAttrs) = Without(old, MigratedAttrs)
              /\ \A key \in DOMAIN table : key # User_pk(user_id) => table'[key] = table[key]]_vars

\* C17 witness: a user stored with a count of 2 and with one archived post has
\* been migrated to a count of 1.
C17_Witness ==
    /\ last.op = "migrate_user_update"
    /\ last.err = ""
    /\ StoredCount(mig.item) = Some(2)
    /\ ArchivedPostsOf(table, UserIdOf(mig.item)) = 1
    /\ StoredCount(UserRecord(table, UserIdOf(mig.item))) = Some(1)
    /\ SchemaVersionIs(UserRecord(table, UserIdOf(mig.item)), 7)

Phases == <<"starting migration", "counting archived posts", "updating user record", "finished migration">>

EventsOf(user_id) == {i \in DOMAIN mig.log : mig.log[i][2] = user_id}

YieldedKeys == {mig.yielded[i] : i \in DOMAIN mig.yielded}

\* C19: with no writer acting during the run, whatever pages the store cuts the
\* scan into, no record is yielded twice, and when generate_all_posts is drained
\* the yielded records are exactly the records that matched the filter, each once
\* and in scan order, the last page being one without LastEvaluatedKey; the query
\* behind generate_by_item returns exactly the flag records of the item.
C19_DrainYieldsEachOnce ==
    /\ mig.kind = "post" =>
          /\ \A i, j \in DOMAIN mig.yielded : i # j => mig.yielded[i] # mig.yielded[j]
          /\ \A i, j \in DOMAIN mig.yielded :
                i < j => Position(mig.yielded[i]) < Position(mig.yielded[j])
          /\ YieldedKeys \subseteq mig.matching
          /\ mig.pc = "done" =>
                /\ YieldedKeys = mig.matching
                /\ Len(mig.yielded) = Cardinality(mig.matching)
                /\ ~mig.more
                /\ mig.start_key = None
    /\ Flag_generate_by_item(table, S_post, P1, TRUE) =
          {Flag_pk(S_post, P1, u) : u \in {v \in UserIds : Flag_pk(S_post, P1, v) \in DOMAIN table}}

\* C19 witness: a second run has been drained on a table where the first post is
\* at version 1 and an album lies between it and the two posts that matched.
C19_Witness ==
    /\ mig.kind = "post"
    /\ mig.pc = "done"
    /\ mig.runs = 2
    /\ mig.yielded = <<Post_pk(P2), Post_pk(P3)>>
    /\ SchemaVersionIs(get_item(table, Post_pk(P1)), 1)
    /\ AlbumExists(table, A1)

\* C20: with writers adding, removing and updating post records between the
\* pages of the scan, every record that matched the filter when the scan began
\* and that no writer touched until the scan ended has been yielded when
\* generate_all_posts is drained.
C20_StableRecordsAreYielded ==
    (mig.kind = "post" /\ mig.pc = "done") => mig.stable \subseteq YieldedKeys

\* C20 witness: a scan has been drained during which a writer acted; the first
\* post, untouched, was yielded and the second, which matched at the start, was
\* not.
C20_Witness ==
    /\ mig.kind = "post"
    /\ mig.pc = "done"
    /\ mig.races = 1
    /\ mig.matching = {Post_pk(P1), Post_pk(P2)}
    /\ mig.stable = {Post_pk(P1)}
    /\ mig.yielded = <<Post_pk(P1)>>

IsPostKey(key) == begins_with(key.partitionKey, S_post \o Slash) /\ key.sortKey = Dash

PostIdOfKey(key) == SubSeq(key.partitionKey, Len(S_post) + 2, Len(key.partitionKey))

\* C21: with no writer acting during the run, when a run of the post migration
\* has ended (normally or with an exception out of main) every post record that
\* was at schemaVersion 0 when the run began is at schemaVersion 1, with
\* postedByUserId equal to its former postedBy.userId and with no postedBy, and
\* no post record is left at schemaVersion 0.
C21_RunMigratesEveryPost ==
    (mig.kind = "post" /\ mig.pc \in {"done", "failed"} /\ mig.races = 0) =>
       /\ \A key \in mig.matching :
             IsPostKey(key) => get_item(table, key) = PostItem(PostIdOfKey(key), 1)
       /\ \A key \in DOMAIN table : IsPostKey(key) => ~SchemaVersionIs(table[key], 0)

PreferredUsername(pool, user_id) ==
    IF user_id \in DOMAIN pool THEN attrs_get(pool[user_id], "preferred_username") ELSE None

\* the step of create_cognito_only_user that the last transition took
LastLine(line) ==
    last'.op = "create_cognito_only_user" /\ last'.steps[1].line = line

\* C22: when the create of the user record fails with UserAlreadyExists, nothing
\* is written to the store, and the handler undoes the claim before the error is
\* surfaced: the pool's preferred_username of the user is then the value the call
\* read at its start (absent if it read none), the call raises UserAlreadyExists,
\* and it has written no user record and issued no follow request.
C22_CreateFailureUndoesClaim ==
    [][/\ LastLine("add") =>
             LET c == last'.steps[1].caller
             IN  User_pk(callers[c].user_id) \in DOMAIN table =>
                    table' = table /\ callers'[c].pc = "except"
       /\ LastLine("unclaim") =>
             LET c == last'.steps[1].caller
             IN  /\ PreferredUsername(cognito', callers[c].user_id) = callers[c].preferred_username
                 /\ callers'[c].pc = "raised"
                 /\ callers'[c].err = "UserAlreadyExists"
                 /\ table' = table
                 /\ callers'[c].follows = 0]_vars

\* C26: once two calls of create_cognito_only_user for the same user id with
\* different usernames have both finished, if the store holds a record of the
\* user then the pool's preferred_username of the user is the lowercased
\* username of that record.
C26_ClaimMatchesStoredUser ==
    (/\ Finished("c1") /\ Finished("c2")
     /\ callers["c1"].user_id = callers["c2"].user_id
     /\ callers["c1"].username # callers["c2"].username
     /\ User_pk(callers["c1"].user_id) \in DOMAIN table)
    => PreferredUsername(cognito, callers["c1"].user_id) =
          Some(lower(table[User_pk(callers["c1"].user_id)].username))

SetAttrs == {"name", "description"}

\* what set(album_id, name, description) makes of a stored attribute
Untouched(old, new, attr) ==
    /\ Has(new, attr) <=> Has(old, attr)
    /\ Has(old, attr) => new[attr] = old[attr]

C23_Outcome(name, description) ==
    LET old == AlbumItem(A1)
        new == get_item(table', Album_pk(A1))
    IN  IF (name = None /\ description = None) \/ name = Some(<<>>)
        THEN /\ last'.err = "AssertionError"
             /\ table' = table
        ELSE /\ last'.err = ""
             /\ IF name # None
                THEN Has(new, "name") /\ new.name = name[1]
                ELSE Untouched(old, new, "name")
             /\ CASE description = None -> Untouched(old, new, "description")
                  [] description = Some(<<>>) -> ~Has(new, "description")
                  [] OTHER -> Has(new, "description") /\ new.description = description[1]
             /\ \A attr \in ((DOMAIN old) \cup (DOMAIN new)) \ (SetAttrs \cup DOMAIN Album_pk(A1)) :
                   Untouched(old, new, attr)
             /\ AlbumExists(table, A1) => KeyOf(new) = KeyOf(old)
             /\ \A key \in (DOMAIN table \cup DOMAIN table') \ {Album_pk(A1)} :
                   key \in DOMAIN table /\ key \in DOMAIN table' /\ table'[key] = table[key]

\* C23: set changes only what it is asked to: a name that is not None sets name, a
\* non-empty description sets description, an empty description removes the
\* attribute, a None argument leaves its attribute as it was, and every other
\* attribute of the album and every other record is unchanged; a call with both
\* arguments None, or with an empty name, raises an assertion error and writes
\* nothing.
C23_SetChangesOnlyWhatIsAsked ==
    [][(last'.op = "set") =>
          \A n \in {None, Some(<<>>), Some(N2)}, d \in {None, Some(<<>>), Some(D1)} :
             C23_Outcome(n, d) \/ ~Album_set(A1, n, d)]_vars

\* C23 witness: set has left an album that has counters, an art hash and a
\* deleteAt index with the new name and without a description.
C23_Witness ==
    /\ last.op = "set"
    /\ last.err = ""
    /\ AlbumExists(table, A1)
    /\ Has(AlbumItem(A1), "name")
    /\ AlbumItem(A1).name = N2
    /\ ~Has(AlbumItem(A1), "description")
    /\ Has(AlbumItem(A1), "artHash")
    /\ Has(AlbumItem(A1), "gsiK1SortKey")
    /\ Has(AlbumItem(A1), "createdAt")
    /\ RankCountOf(table, A1) = 2

ElementsOf(seq) == {seq[i] : i \in DOMAIN seq}

\* the ids of the items of a type that a user has a flag record on
FlaggedIdsBy(tbl, item_type, user_id) ==
    {f[2] : f \in {g \in TypedItems : g[1] = item_type /\ Flag_pk(g[1], g[2], user_id) \in DOMAIN tbl}}

\* C24: generate_item_ids_by_user(user_id) of the FlagDynamo of an item type yields
\* exactly the bare ids of the items of that type that user_id has flagged, each
\* once: every id yielded is, through pk(id, user_id), the key of a flag record
\* in the store, and an item that only another user flagged, or that the user
\* flagged under another item type, is not yielded.
C24_ItemIdsByUser ==
    last.op = "Flag_generate_item_ids_by_user" =>
       LET item_type == last.steps[1].item_type
           user_id == last.steps[1].user_id
           ids == last.ret
       IN  /\ \A i, j \in DOMAIN ids : i # j => ids[i] # ids[j]
           /\ \A i \in DOMAIN ids : Flag_pk(item_type, ids[i], user_id) \in DOMAIN table
           /\ ElementsOf(ids) = FlaggedIdsBy(table, item_type, user_id)

\* C24 witness: the first user has flagged the post 'p/' and the comment 'p1', the
\* second user the post 'p1', and an album is in the index for its deletion; the
\* posts flagged by the first user are 'p/' alone.
C24_Witness ==
    /\ last.op = "Flag_generate_item_ids_by_user"
    /\ last.steps[1] = [item_type |-> S_post, user_id |-> U1]
    /\ last.ret = <<<<"p", "/">>>>
    /\ Flag_pk(S_comment, P1, U1) \in DOMAIN table
    /\ Flag_pk(S_post, P1, <<"u", "2">>) \in DOMAIN table
    /\ Has(AlbumItem(A1), "gsiK1PartitionKey")
    /\ Has(AlbumItem(A1), "name")

\* generate_keys_to_delete can return the record: it is in index GSI-K1 under 'album'
Indexed(item) == Has(item, "gsiK1PartitionKey") /\ item.gsiK1PartitionKey = S_album

\* an album that add_album created is indexed for deletion and holds a post
IndexedWithPosts(tbl) ==
    /\ Has(get_item(tbl, Album_pk(A1)), "albumId")
    /\ Indexed(get_item(tbl, Album_pk(A1)))
    /\ PostCountOf(tbl, A1) > 0

\* C25 as stated: under any interleaving of set_delete_at_fail_soft,
\* clear_delete_at_fail_soft and committed transact_add_post and
\* transact_remove_post steps, an album is never at once indexed for scheduled
\* deletion and holding postCount > 0.
C25_NeverIndexedWithPosts == ~IndexedWithPosts(table)

\* C25 amended: set_delete_at_fail_soft writes the index only on an album whose
\* postCount is 0 or absent at that moment, and writes nothing otherwise;
\* clear_delete_at_fail_soft leaves the album unindexed whatever its postCount;
\* the transaction steps neither read nor change the index, so an album comes to
\* be indexed while holding a post only by a committed transact_add_post on an
\* album that is already indexed.
C25_IndexedOnlyIfEmptyAtSet ==
    [][LET old == AlbumItem(A1)
           new == get_item(table', Album_pk(A1))
       IN  /\ (last'.op = "set_delete_at_fail_soft") =>
                 IF PostCountOf(table, A1) > 0
                 THEN last'.warnings = 1 /\ table' = table
                 ELSE last'.warnings = 0 /\ Indexed(new) /\ PostCountOf(table', A1) = 0
           /\ (last'.op = "clear_delete_at_fail_soft") => ~Indexed(new)
           /\ (last'.op = "transact_write_items") =>
                 /\ Indexed(new) <=> Indexed(old)
                 /\ Untouched(old, new, "gsiK1PartitionKey")
                 /\ Untouched(old, new, "gsiK1SortKey")
           /\ (IndexedWithPosts(table') /\ ~IndexedWithPosts(table)) =>
                 /\ last'.op = "transact_write_items"
                 /\ last'.err = ""
                 /\ last'.steps[1].kind = "transact_add_post"
                 /\ Indexed(old)
                 /\ PostCountOf(table, A1) = 0]_vars

\* C25 witness: set_delete_at_fail_soft has indexed an album whose postCount is
\* back at 0 after a post was added and removed.
C25_Witness ==
    /\ last.op = "set_delete_at_fail_soft"
    /\ last.warnings = 0
    /\ Has(AlbumItem(A1), "albumId")
    /\ Indexed(AlbumItem(A1))
    /\ Has(AlbumItem(A1), "postCount")
    /\ AlbumItem(A1).postCount = 0
    /\ adds[A1] = 1
    /\ removes[A1] = 1

\* C27: on an album that add_album created and that only committed
\* transact_add_post, transact_remove_post and transact_increment_rank_count steps
\* change, postCount is at most rankCount after every step (an absent counter
\* counts as 0), and no step on a record that stays makes rankCount smaller.
C27_PostCountAtMostRankCount ==
    [][\A a \in AlbumIds :
          /\ PostCountOf(table', a) <= RankCountOf(table', a)
          /\ (AlbumExists(table, a) /\ AlbumExists(table', a)) =>
                RankCountOf(table', a) >= RankCountOf(table, a)
          /\ (last'.op = "transact_write_items" /\ last'.err = "") =>
                RankCountOf(table', a) - PostCountOf(table', a) =
                   RankCountOf(table, a) - PostCountOf(table, a) +
                   (IF last'.steps[1].album_id = a /\ last'.steps[1].kind # "transact_add_post"
                    THEN 1 ELSE 0)]_vars

\* C27 witness: after an add_post and a remove_post step, an increment step has
\* committed: postCount is 0 and rankCount is 2.
C27_Witness ==
    /\ LastStepWas("transact_increment_rank_count", A1)
    /\ last.err = ""
    /\ adds[A1] = 1
    /\ removes[A1] = 1
    /\ PostCountOf(table, A1) = 0
    /\ RankCountOf(table, A1) = 2

IsFlagOf(key, item_type, item_id) ==
    \E u \in UserIds : key = Flag_pk(item_type, item_id, u)

\* C28: delete_all_for_item(item_id) of a FlagDynamo of one item type removes the
\* flag record of every user on that item and nothing else: the item's primary
\* record (sort key '-'), the flags on other item ids, the flags held under another
\* item type and every other record stay as they were, nothing is added, and
\* generate_by_item(item_id) yields nothing afterwards.
C28_DeleteAllRemovesOnlyItsFlags ==
    [][\A f \in TypedItems :
          Flag_delete_all_for_item(f[1], f[2]) =>
             /\ last'.err = ""
             /\ \A u \in UserIds : Flag_pk(f[1], f[2], u) \notin DOMAIN table'
             /\ DOMAIN table' \subseteq DOMAIN table
             /\ \A k \in DOMAIN table :
                   ~IsFlagOf(k, f[1], f[2]) => (k \in DOMAIN table' /\ table'[k] = table[k])
             /\ (Post_pk(f[2]) \in DOMAIN table) =>
                   get_item(table', Post_pk(f[2])) = table[Post_pk(f[2])]
             /\ \A g \in TypedItems \ {f} : \A u \in UserIds :
                   get_item(table', Flag_pk(g[1], g[2], u)) = get_item(table, Flag_pk(g[1], g[2], u))
             /\ Flag_generate_by_item(table', f[1], f[2], FALSE) = {}
             /\ Flag_generate_by_item(table', f[1], f[2], TRUE) = {}]_vars

\* C28 witness: delete_all_for_item has just run on post P1, no flag on it is left,
\* and its primary record, a flag on the comment with the same id and a flag on
\* another post are still stored.
C28_Witness ==
    /\ last.op = "Flag_delete_all_for_item"
    /\ \A u \in UserIds : Flag_pk(S_post, P1, u) \notin DOMAIN table
    /\ \A u \in UserIds : <<S_post, P1, u>> \notin flagged
    /\ Post_pk(P1) \in DOMAIN table
    /\ \E u \in UserIds : Flag_pk(S_comment, P1, u) \in DOMAIN table
    /\ \E u \in UserIds : Flag_pk(S_post, <<"p", "/">>, u) \in DOMAIN table

\* C29: the update of the post migration never creates or brings back a record. When
\* update_post_from_0_to_1 runs for a yielded post whose record is gone, or is no
\* longer at schemaVersion 0 (another run migrated it), the update fails on its
\* condition, the table is left as it was, and the run ends in error there: it
\* never goes on to complete normally. An update that goes through changes only
\* a record that was stored at schemaVersion 0.
C29_UpdateNeverCreates ==
    [][/\ (last'.op = "update_post_from_0_to_1") =>
             LET key == mig'.yielded[Len(mig'.yielded)]
                 old == get_item(table, key)
                 ready == key \in DOMAIN table /\ Has(old, "schemaVersion") /\ old.schemaVersion = 0
             IN  /\ ~ready => /\ last'.err = "ConditionalCheckFailedException"
                              /\ table' = table
                              /\ mig'.pc = "failed"
                              /\ mig'.writes = mig.writes
                 /\ DOMAIN table' = DOMAIN table
                 /\ (table' # table) => (ready /\ last'.err = "")
       /\ (mig.pc = "failed") => (mig'.pc = "failed" /\ mig'.writes = mig.writes)]_vars

\* C29 witness: the run was yielded two posts in one page; one was deleted and the
\* other migrated by the other run before their updates, and the run has failed
\* at the first of them having written nothing.
C29_Witness ==
    /\ last.op = "update_post_from_0_to_1"
    /\ last.err = "ConditionalCheckFailedException"
    /\ mig.pc = "failed"
    /\ mig.writes = 0
    /\ Len(mig.page) > 0
    /\ \E k \in DOMAIN table : table[k].schemaVersion = 1
    /\ mig.yielded[Len(mig.yielded)] \notin DOMAIN table

\* C29 witness of the other case: the run failed at a post that another run had
\* migrated.
C29_WitnessMigrated ==
    /\ last.op = "update_post_from_0_to_1"
    /\ last.err = "ConditionalCheckFailedException"
    /\ mig.pc = "failed"
    /\ mig.yielded[Len(mig.yielded)] \in DOMAIN table
    /\ table[mig.yielded[Len(mig.yielded)]].schemaVersion = 1

====
